---- MODULE Spec2Model ----
(***************************************************************************)
(* claude-merge: the priority comparator (internal/config), the merge      *)
(* engine PriorityMerger.MergeAll (internal/merger) in its standard and    *)
(* template-substitution modes, the placeholder extractors, the merge      *)
(* strategies, the loader (DetectFormat, ParseConfig, parseMarkdown,       *)
(* LoadConfig, ValidateConfig) and the run of the command, from its        *)
(* loading loop to the write of the output file.                           *)
(*                                                                         *)
(* Strings are sequences of tokens.  A token is an indivisible piece of    *)
(* text written literally; "" is the empty sequence <<>>, concatenation is *)
(* \o.  The inputs never juxtapose two tokens whose texts would together   *)
(* spell a third one.  A Go map is a function whose DOMAIN is its key set. *)
(***************************************************************************)
EXTENDS Integers, Sequences, FiniteSets, TLC

VARIABLES configs, pc, i, result, ret, err, base, replacements, prioA, prioB, cmp,
          files, validate, fatal, verdict, argStrategy, argOld, argNew, applied,
          earlier, written

vars == <<configs, pc, i, result, ret, err, base, replacements, prioA, prioB, cmp,
          files, validate, fatal, verdict, argStrategy, argOld, argNew, applied,
          earlier, written>>

\* the variables of the loader, of the validator, of the merge strategies, of
\* an earlier invocation and of the output file, which MergeAll and the
\* comparator leave alone
auxVars == <<files, validate, fatal, verdict, argStrategy, argOld, argNew, applied,
             earlier, written>>

(***************************************************************************)
(* Bounds of the model.                                                    *)
(***************************************************************************)
MaxDocs == 3
MaxMag == 2

(***************************************************************************)
(* Tokens of section content.                                              *)
(***************************************************************************)
NL == "\n"
OpenTest == "<language-specific-test-commands-here>"
CloseTest == "</language-specific-test-commands-here>"
OpenDoc == "<language-specific-documentation-standards>"
CloseDoc == "</language-specific-documentation-standards>"
OpenOther == "<language-specific-build-commands>"
CloseOther == "</language-specific-build-commands>"
TestingCommands == "Testing commands"
GoTestAll == "test ./..."
DocumentationStandards == "Documentation Standards"
\* the code-fence token: three backquotes
Fence == "[fence]"

\* the tokens whose text contains "<language-specific-"
OpenPrefixTokens == {OpenTest, OpenDoc, OpenOther}
\* the tokens whose text contains "</language-specific-"
ClosePrefixTokens == {CloseTest, CloseDoc, CloseOther}
\* the tokens whose text starts with "#", and with "##"
HashTokens == {"#", "##", "###"}
Hash2Tokens == {"##", "###"}
\* the tokens whose text contains "Testing", and "Documentation"
TestingTokens == {TestingCommands, "Testing"}
DocumentationTokens == {DocumentationStandards, "Documentation"}

EmptyString == <<>>

\* strings.Contains(s, tok) for a token's text
Contains(s, tok) == \E k \in 1..Len(s) : s[k] = tok

\* strings.Contains(s, a + b): the text of token a directly followed by that of b
ContainsPair(s, a, b) == \E k \in 1..(Len(s) - 1) : s[k] = a /\ s[k + 1] = b

ContainsAny(s, toks) == \E k \in 1..Len(s) : s[k] \in toks

\* strings.Index(s, tok), counted from 1; 0 stands for Go's -1
Index(s, tok) ==
    IF Contains(s, tok)
    THEN CHOOSE k \in 1..Len(s) : s[k] = tok /\ \A j \in 1..(k-1) : s[j] # tok
    ELSE 0

\* strings.HasPrefix(line, p) where toks are the tokens starting with p
HasPrefixIn(line, toks) == Len(line) > 0 /\ line[1] \in toks

(***************************************************************************)
(* Priority (internal/config).                                             *)
(***************************************************************************)
PriorityNone == 0
PriorityRelative == 1
PriorityExplicit == 2

PriorityTypes == {PriorityNone, PriorityRelative, PriorityExplicit}

Priority(t, v) == [Type |-> t, Value |-> v]

ZeroPriority == Priority(PriorityNone, 0)

NewExplicitPriority(v) == Priority(PriorityExplicit, v)

NewRelativePriority(v) == Priority(PriorityRelative, v)

\* a strict comparator that compares the magnitudes alone
TakesPrecedenceOverByValue(p, other) == p.Value > other.Value

TakesPrecedenceOver(p, other) ==
    IF p.Type = PriorityExplicit /\ other.Type # PriorityExplicit THEN TRUE
    ELSE IF other.Type = PriorityExplicit /\ p.Type # PriorityExplicit THEN FALSE
    ELSE IF p.Type = other.Type THEN p.Value > other.Value
    ELSE p.Type = PriorityRelative /\ other.Type = PriorityNone

\* a comparator for which equal priorities do not tie
OrEqualWithoutTies(p, other) == TakesPrecedenceOver(p, other)

\* a comparator that forgets the kinds and compares the magnitudes alone
OrEqualIgnoringKind(p, other) == p.Value >= other.Value

TakesPrecedenceOverOrEqual(p, other) ==
    IF p.Type = PriorityExplicit /\ other.Type # PriorityExplicit THEN TRUE
    ELSE IF other.Type = PriorityExplicit /\ p.Type # PriorityExplicit THEN FALSE
    ELSE IF p.Type = other.Type THEN p.Value >= other.Value
    ELSE IF p.Type = PriorityRelative /\ other.Type = PriorityNone THEN TRUE
    ELSE IF p.Type = PriorityNone /\ other.Type = PriorityNone THEN TRUE
    ELSE FALSE

(***************************************************************************)
(* The canonical model (internal/config).                                  *)
(***************************************************************************)
Metadata(title, description, version, language, extends, priority) ==
    [Title |-> title, Description |-> description, Version |-> version,
     Language |-> language, Extends |-> extends, Priority |-> priority]

ZeroMetadata ==
    Metadata(EmptyString, EmptyString, EmptyString, EmptyString, EmptyString, ZeroPriority)

Section(order, content, priority) ==
    [Order |-> order, Parent |-> EmptyString, MergeID |-> EmptyString,
     Content |-> content, MergePoints |-> <<>>, Priority |-> priority]

MergePoint(placeholder, default, priority) ==
    [Placeholder |-> placeholder, Default |-> default, Priority |-> priority]

MergeTarget(strategy, content, priority) ==
    [Strategy |-> strategy, Content |-> content, Priority |-> priority]

MapNames == {"Sections", "MergePoints", "MergeTargets"}

\* A map field of a Config is nil or a map.  A nil map reads as an empty one
\* (len 0, an empty range); NilMaps names the map fields that are nil.  The
\* documents built here have all three maps allocated.
Config(metadata, sections, mergePoints, mergeTargets, sourceFile) ==
    [Metadata |-> metadata, SourceFile |-> sourceFile, Sections |-> sections,
     MergePoints |-> mergePoints, MergeTargets |-> mergeTargets, NilMaps |-> {}]

\* make(map[string]T)
EmptyMap == <<>>

(***************************************************************************)
(* Merge strategies (internal/merger).  A strategy tag is a string.        *)
(***************************************************************************)
StrategyReplace == <<"replace">>
StrategyAppend == <<"append">>
StrategyPrepend == <<"prepend">>

IsValid(s) == s \in {StrategyReplace, StrategyAppend, StrategyPrepend}

\* a combination in which an unrecognized tag keeps the old content
ApplyStrategyKeeping(strategy, old, new) ==
    IF strategy = StrategyReplace THEN new
    ELSE IF strategy = StrategyAppend
         THEN IF old = EmptyString THEN new ELSE old \o <<NL>> \o new
    ELSE IF strategy = StrategyPrepend
         THEN IF old = EmptyString THEN new ELSE new \o <<NL>> \o old
    ELSE old

ApplyStrategy(strategy, old, new) ==
    IF strategy = StrategyReplace THEN new
    ELSE IF strategy = StrategyAppend
         THEN IF old = EmptyString THEN new ELSE old \o <<NL>> \o new
    ELSE IF strategy = StrategyPrepend
         THEN IF old = EmptyString THEN new ELSE new \o <<NL>> \o old
    ELSE new

(***************************************************************************)
(* Standard mode (internal/merger): one document folded into the result.   *)
(***************************************************************************)
\* a title step that takes the title and leaves the priority behind
mergeTitleOnly(md, incoming) ==
    IF (md.Title = EmptyString \/ TakesPrecedenceOverOrEqual(incoming.Priority, md.Priority))
       /\ incoming.Title # EmptyString
    THEN [md EXCEPT !.Title = incoming.Title]
    ELSE md

\* the title step of mergeMetadata: the title carries the priority
mergeTitle(md, incoming) ==
    IF (md.Title = EmptyString \/ TakesPrecedenceOverOrEqual(incoming.Priority, md.Priority))
       /\ incoming.Title # EmptyString
    THEN [md EXCEPT !.Title = incoming.Title, !.Priority = incoming.Priority]
    ELSE md

\* a field step that lets every non-empty incoming value through
mergeFieldAlways(md, incoming, f) ==
    IF incoming[f] # EmptyString THEN [md EXCEPT ![f] = incoming[f]] ELSE md

\* one of the four field steps of mergeMetadata, on the field named f
mergeField(md, incoming, f) ==
    IF (md[f] = EmptyString \/ TakesPrecedenceOverOrEqual(incoming.Priority, md.Priority))
       /\ incoming[f] # EmptyString
    THEN [md EXCEPT ![f] = incoming[f]]
    ELSE md

mergeMetadata(res, incoming) ==
    LET m1 == mergeTitle(res.Metadata, incoming.Metadata)
        m2 == mergeField(m1, incoming.Metadata, "Description")
        m3 == mergeField(m2, incoming.Metadata, "Version")
        m4 == mergeField(m3, incoming.Metadata, "Language")
        m5 == mergeField(m4, incoming.Metadata, "Extends")
    IN  [res EXCEPT !.Metadata = m5]

\* a merge loop that forgets the keys the result does not have yet
mergeEntriesExistingOnly(existing, incoming) ==
    [k \in DOMAIN existing |->
        IF k \in DOMAIN incoming
           /\ TakesPrecedenceOverOrEqual(incoming[k].Priority, existing[k].Priority)
        THEN incoming[k]
        ELSE existing[k]]

\* a merge loop in which a tie keeps the entry already there
mergeEntriesStrict(existing, incoming) ==
    [k \in DOMAIN existing \cup DOMAIN incoming |->
        IF k \notin DOMAIN incoming THEN existing[k]
        ELSE IF k \notin DOMAIN existing
                \/ TakesPrecedenceOver(incoming[k].Priority, existing[k].Priority)
             THEN incoming[k]
             ELSE existing[k]]

\* the loop shared by mergeSections, mergeMergePoints and mergeMergeTargets:
\* the keys of a map are distinct, so the iteration order does not matter
mergeEntries(existing, incoming) ==
    [k \in DOMAIN existing \cup DOMAIN incoming |->
        IF k \notin DOMAIN incoming THEN existing[k]
        ELSE IF k \notin DOMAIN existing
                \/ TakesPrecedenceOverOrEqual(incoming[k].Priority, existing[k].Priority)
             THEN incoming[k]
             ELSE existing[k]]

\* a section merge in which the incoming section always takes the key
mergeSectionsLatest(res, incoming) ==
    [res EXCEPT !.Sections =
        [k \in DOMAIN res.Sections \cup DOMAIN incoming.Sections |->
            IF k \in DOMAIN incoming.Sections THEN incoming.Sections[k]
            ELSE res.Sections[k]]]

\* a section merge that appends the incoming content to the content already
\* under the key
mergeSectionsAppending(res, incoming) ==
    [res EXCEPT !.Sections =
        [k \in DOMAIN res.Sections \cup DOMAIN incoming.Sections |->
            IF k \notin DOMAIN incoming.Sections THEN res.Sections[k]
            ELSE IF k \notin DOMAIN res.Sections THEN incoming.Sections[k]
            ELSE [incoming.Sections[k] EXCEPT
                    !.Content = ApplyStrategy(StrategyAppend, res.Sections[k].Content, @)]]]

mergeSections(res, incoming) ==
    [res EXCEPT !.Sections = mergeEntries(res.Sections, incoming.Sections)]

\* a merge of the merge points in which the incoming map takes the place of
\* the one already there
mergeMergePointsReplacing(res, incoming) ==
    [res EXCEPT !.MergePoints = incoming.MergePoints]

mergeMergePoints(res, incoming) ==
    [res EXCEPT !.MergePoints = mergeEntries(res.MergePoints, incoming.MergePoints)]

\* a merge of the merge targets that combines the contents under a key as
\* the incoming target's strategy tag says
mergeMergeTargetsApplying(res, incoming) ==
    [res EXCEPT !.MergeTargets =
        [k \in DOMAIN res.MergeTargets \cup DOMAIN incoming.MergeTargets |->
            IF k \notin DOMAIN incoming.MergeTargets THEN res.MergeTargets[k]
            ELSE IF k \notin DOMAIN res.MergeTargets THEN incoming.MergeTargets[k]
            ELSE [incoming.MergeTargets[k] EXCEPT
                    !.Content = ApplyStrategy(incoming.MergeTargets[k].Strategy,
                                              res.MergeTargets[k].Content, @)]]]

mergeMergeTargets(res, incoming) ==
    [res EXCEPT !.MergeTargets = mergeEntries(res.MergeTargets, incoming.MergeTargets)]

(***************************************************************************)
(* Template mode (internal/merger): detection of the base template.        *)
(***************************************************************************)
\* a detection satisfied by an opening or a closing marker alone
containsAnyMarker(content) ==
    ContainsAny(content, OpenPrefixTokens) \/ ContainsAny(content, ClosePrefixTokens)

containsPlaceholders(content) ==
    ContainsAny(content, OpenPrefixTokens) /\ ContainsAny(content, ClosePrefixTokens)

\* whether some section of cfg holds placeholders (the inner loop of findBaseTemplate)
hasPlaceholderSection(cfg) ==
    \E name \in DOMAIN cfg.Sections : containsPlaceholders(cfg.Sections[name].Content)

\* the index of the base template in cfgs; 0 stands for nil
findBaseTemplate(cfgs) ==
    IF \E k \in 1..Len(cfgs) : hasPlaceholderSection(cfgs[k])
    THEN CHOOSE k \in 1..Len(cfgs) :
            /\ hasPlaceholderSection(cfgs[k])
            /\ \A j \in 1..(k-1) : ~hasPlaceholderSection(cfgs[j])
    ELSE 0

replacePlaceholderBlock(content, openTag, closeTag, replacement) ==
    LET startIdx == Index(content, openTag)
        endIdx == Index(content, closeTag)
    IN  IF startIdx = 0 THEN content
        ELSE IF endIdx = 0 THEN content
        ELSE SubSeq(content, 1, startIdx - 1) \o replacement
                \o SubSeq(content, endIdx + 1, Len(content))

(***************************************************************************)
(* Template mode: the extraction heuristics.                               *)
(***************************************************************************)
RECURSIVE Split(_)
\* strings.Split(s, "\n")
Split(s) ==
    IF ~Contains(s, NL) THEN <<s>>
    ELSE LET k == Index(s, NL)
         IN  <<SubSeq(s, 1, k - 1)>> \o Split(SubSeq(s, k + 1, Len(s)))

RECURSIVE Join(_)
\* strings.Join(lines, "\n")
Join(lines) ==
    IF Len(lines) = 0 THEN EmptyString
    ELSE IF Len(lines) = 1 THEN lines[1]
    ELSE lines[1] \o <<NL>> \o Join(Tail(lines))

RECURSIVE TrimLeft(_)
TrimLeft(s) == IF Len(s) > 0 /\ s[1] = NL THEN TrimLeft(Tail(s)) ELSE s

RECURSIVE TrimRight(_)
TrimRight(s) ==
    IF Len(s) > 0 /\ s[Len(s)] = NL THEN TrimRight(SubSeq(s, 1, Len(s) - 1)) ELSE s

\* strings.TrimSpace: the newline is the only token of white space
TrimSpace(s) == TrimRight(TrimLeft(s))

containsTestCommands(content) ==
    \/ Contains(content, TestingCommands)
    \/ ContainsPair(content, "###", TestingCommands)
    \/ Contains(content, GoTestAll)

\* how many collected lines let an empty line end the test section
TestBlockLines == 4

RECURSIVE extractTestLoop(_, _, _, _)
\* the loop of extractTestCommands from line k on
extractTestLoop(lines, k, inTestSection, acc) ==
    IF k > Len(lines) THEN acc
    ELSE LET line == lines[k]
         IN  IF Contains(line, TestingCommands)
                \/ ContainsPair(line, "###", TestingCommands)
             THEN extractTestLoop(lines, k + 1, TRUE, acc)
             ELSE IF ~inTestSection THEN extractTestLoop(lines, k + 1, FALSE, acc)
             ELSE IF HasPrefixIn(line, HashTokens) /\ ~ContainsAny(line, TestingTokens)
                  THEN acc
             ELSE IF line = EmptyString /\ Len(acc) > TestBlockLines THEN acc
             ELSE IF line # EmptyString
                  THEN extractTestLoop(lines, k + 1, TRUE, Append(acc, line))
             ELSE extractTestLoop(lines, k + 1, TRUE, acc)

extractTestCommands(content) == Join(extractTestLoop(Split(content), 1, FALSE, <<>>))

containsDocumentationStandards(content) ==
    \/ Contains(content, DocumentationStandards)
    \/ ContainsPair(content, "###", DocumentationStandards)

\* the number of code fences that closes the documentation block
DocFenceCount == 2

RECURSIVE extractDocLoop(_, _, _, _, _)
\* the loop of extractDocumentationStandards from line k on
extractDocLoop(lines, k, inDocSection, codeBlockCount, acc) ==
    IF k > Len(lines) THEN acc
    ELSE LET line == lines[k]
             count == IF HasPrefixIn(line, {Fence}) THEN codeBlockCount + 1
                      ELSE codeBlockCount
         IN  IF Contains(line, DocumentationStandards)
                \/ ContainsPair(line, "###", DocumentationStandards)
             THEN extractDocLoop(lines, k + 1, TRUE, codeBlockCount, Append(acc, EmptyString))
             ELSE IF ~inDocSection
                  THEN extractDocLoop(lines, k + 1, FALSE, codeBlockCount, acc)
             ELSE IF count >= DocFenceCount /\ HasPrefixIn(line, {Fence})
                  THEN Append(acc, line)
             ELSE IF HasPrefixIn(line, Hash2Tokens) /\ ~ContainsAny(line, DocumentationTokens)
                  THEN acc
             ELSE extractDocLoop(lines, k + 1, TRUE, count, Append(acc, line))

extractDocumentationStandards(content) ==
    TrimSpace(Join(extractDocLoop(Split(content), 1, FALSE, 0, <<>>)))

(***************************************************************************)
(* Template mode: applyPlaceholderReplacements and mergeWithTemplate.      *)
(***************************************************************************)
\* the texts extracted from the sections of cfg that match the test heuristic
testCommandTexts(cfg) ==
    {extractTestCommands(cfg.Sections[n].Content) :
        n \in {m \in DOMAIN cfg.Sections : containsTestCommands(cfg.Sections[m].Content)}}

\* the texts extracted from the sections of cfg that match the documentation heuristic
docStandardTexts(cfg) ==
    {extractDocumentationStandards(cfg.Sections[n].Content) :
        n \in {m \in DOMAIN cfg.Sections :
                containsDocumentationStandards(cfg.Sections[m].Content)}}

\* a collection loop in which a matching section whose extraction is empty
\* leaves the text found before it under the key
lastNonEmptyWritten(texts) ==
    LET found == {k \in 1..Len(texts) : texts[k] \ {EmptyString} # {}}
    IN  IF found # {}
        THEN texts[CHOOSE k \in found : \A j \in found : j <= k] \ {EmptyString}
        ELSE {EmptyString}

\* The texts the collection loop can leave under one replacement key, given
\* for each document the texts of its matching sections.  The documents are
\* scanned in order and every matching section overwrites the key, so the
\* value comes from a matching section of the last document that has one; Go
\* iterates that document's section map in an unspecified order, so any of
\* its matching sections can be the last.  A key never written reads as "".
lastWritten(texts) ==
    IF \E k \in 1..Len(texts) : texts[k] # {}
    THEN texts[CHOOSE k \in 1..Len(texts) :
                    texts[k] # {} /\ \A j \in (k+1)..Len(texts) : texts[j] = {}]
    ELSE {EmptyString}

testCommandCandidates(cfgs) ==
    lastWritten([k \in 1..Len(cfgs) |-> testCommandTexts(cfgs[k])])

docStandardCandidates(cfgs) ==
    lastWritten([k \in 1..Len(cfgs) |-> docStandardTexts(cfgs[k])])

\* the second loop of applyPlaceholderReplacements on one section's content
applyToContent(content, repl) ==
    LET c1 == IF repl.testCommands # EmptyString
              THEN replacePlaceholderBlock(content, OpenTest, CloseTest, repl.testCommands)
              ELSE replacePlaceholderBlock(content, OpenTest, CloseTest, EmptyString)
    IN  IF repl.documentationStandards # EmptyString
        THEN replacePlaceholderBlock(c1, OpenDoc, CloseDoc, repl.documentationStandards)
        ELSE replacePlaceholderBlock(c1, OpenDoc, CloseDoc, EmptyString)

applyReplacements(res, repl) ==
    [res EXCEPT !.Sections =
        [name \in DOMAIN res.Sections |->
            [res.Sections[name] EXCEPT !.Content = applyToContent(@, repl)]]]

\* for name, v := range m { target[name] = v }
mergeSeed(target, m) ==
    [k \in DOMAIN target \cup DOMAIN m |-> IF k \in DOMAIN m THEN m[k] ELSE target[k]]

\* the first part of mergeWithTemplate: the base seeds the result
seedFromBase(res, baseConfig) ==
    [res EXCEPT !.Metadata = baseConfig.Metadata,
                !.Sections = mergeSeed(res.Sections, baseConfig.Sections),
                !.MergePoints = mergeSeed(res.MergePoints, baseConfig.MergePoints),
                !.MergeTargets = mergeSeed(res.MergeTargets, baseConfig.MergeTargets)]

\* a title override that takes the overriding document's priority along
overrideTitleAndPriority(res, cfgs, k, baseIdx) ==
    LET cfg == cfgs[k]
    IN  IF k # baseIdx
           /\ cfg.Metadata.Title # EmptyString
           /\ cfg.Metadata.Title # res.Metadata.Title
           /\ TakesPrecedenceOver(cfg.Metadata.Priority, res.Metadata.Priority)
        THEN [res EXCEPT !.Metadata.Title = cfg.Metadata.Title,
                         !.Metadata.Priority = cfg.Metadata.Priority]
        ELSE res

\* a title override that happens once: only the base's own title gives way
overrideTitleOnce(res, cfgs, k, baseIdx) ==
    LET cfg == cfgs[k]
    IN  IF k # baseIdx
           /\ res.Metadata.Title = cfgs[baseIdx].Metadata.Title
           /\ cfg.Metadata.Title # EmptyString
           /\ cfg.Metadata.Title # res.Metadata.Title
           /\ TakesPrecedenceOver(cfg.Metadata.Priority, res.Metadata.Priority)
        THEN [res EXCEPT !.Metadata.Title = cfg.Metadata.Title]
        ELSE res

\* a title override that a tie with the result's priority is enough for
overrideTitleOnTie(res, cfgs, k, baseIdx) ==
    LET cfg == cfgs[k]
    IN  IF k # baseIdx
           /\ TakesPrecedenceOverOrEqual(cfg.Metadata.Priority, res.Metadata.Priority)
           /\ cfg.Metadata.Title # EmptyString
           /\ cfg.Metadata.Title # res.Metadata.Title
        THEN [res EXCEPT !.Metadata.Title = cfg.Metadata.Title]
        ELSE res

\* the body of the last loop of mergeWithTemplate for the document at index k
overrideTitle(res, cfgs, k, baseIdx) ==
    LET cfg == cfgs[k]
    IN  IF k # baseIdx
           /\ TakesPrecedenceOverOrEqual(cfg.Metadata.Priority, res.Metadata.Priority)
           /\ cfg.Metadata.Title # EmptyString
           /\ cfg.Metadata.Title # res.Metadata.Title
           /\ TakesPrecedenceOver(cfg.Metadata.Priority, res.Metadata.Priority)
        THEN [res EXCEPT !.Metadata.Title = cfg.Metadata.Title]
        ELSE res

\* result := &config.Config{...} in MergeAll
NewResult == [Metadata |-> ZeroMetadata, SourceFile |-> EmptyString,
              Sections |-> EmptyMap, MergePoints |-> EmptyMap, MergeTargets |-> EmptyMap,
              NilMaps |-> {}]

(***************************************************************************)
(* The inputs of MergeAll.  The document at position k of the input        *)
(* sequence carries k in its texts, so that the documents of a sequence    *)
(* are told apart in the result.                                           *)
(***************************************************************************)
Tag(k) == ToString(k)

Magnitudes == 0..MaxMag

Priorities == {Priority(t, v) : t \in PriorityTypes, v \in Magnitudes}

\* a template body: text around the test-commands marker pair
TemplateBody(k) ==
    <<"body", Tag(k), NL, OpenTest, NL, "placeholder", NL, CloseTest, NL, "end">>

PlainBody(k) == <<"body", Tag(k)>>

\* A document of the entry family: under the shared keys an entry of priority
\* p in each of the three maps (when has), and under its own key Tag(k) an
\* entry without priority in each.
EntryShapes ==
    {[has |-> TRUE, p |-> q, tpl |-> FALSE] : q \in Priorities}
    \cup {[has |-> FALSE, p |-> ZeroPriority, tpl |-> FALSE]}
    \cup {[has |-> TRUE, p |-> q, tpl |-> TRUE] :
            q \in {NewRelativePriority(MaxMag), ZeroPriority}}

EntryDoc(shape, k) ==
    LET own == Tag(k)
        shared(key, v) == IF shape.has THEN (key :> v) ELSE EmptyMap
    IN  Config(
            Metadata(<<"Title", own>>, EmptyString, EmptyString, EmptyString, EmptyString,
                     ZeroPriority),
            shared("section1",
                   Section(k, IF shape.tpl THEN TemplateBody(k) ELSE PlainBody(k), shape.p))
                @@ (own :> Section(k, <<"own", own>>, ZeroPriority)),
            shared("point1", MergePoint(<<"MERGE", own>>, <<"default", own>>, shape.p))
                @@ (own :> MergePoint(<<"MERGE">>, <<"default">>, ZeroPriority)),
            shared("target1", MergeTarget(<<"append">>, <<"target", own>>, shape.p))
                @@ (own :> MergeTarget(<<"replace">>, <<"target">>, ZeroPriority)),
            <<"file", own>>)

NoReplacements == [testCommands |-> EmptyString, documentationStandards |-> EmptyString]

\* the variables of the comparator's specification, unused by MergeAll
IdleComparator ==
    /\ prioA = ZeroPriority
    /\ prioB = ZeroPriority
    /\ cmp = [strict |-> FALSE, orEqual |-> FALSE]

\* what is known of an earlier invocation of MergeAll before there was one
NotInvoked == [ret |-> "pending"]

\* the variables of the loader, the validator and the strategies at rest, no
\* earlier invocation, no output file written
IdleAux ==
    /\ files = <<>>
    /\ validate = FALSE
    /\ fatal = "nil"
    /\ verdict = "nil"
    /\ argStrategy = EmptyString
    /\ argOld = EmptyString
    /\ argNew = EmptyString
    /\ applied = EmptyString
    /\ earlier = NotInvoked
    /\ written = FALSE

\* the error values of MergeAll: nil, and the error of an empty input
NoError == "nil"
ErrNoConfigurations == "no configurations to merge"

\* the state before MergeAll(configs) is called
InitMerge ==
    /\ pc = "start"
    /\ i = 0
    /\ result = NewResult
    /\ ret = "pending"
    /\ err = NoError
    /\ base = 0
    /\ replacements = NoReplacements
    /\ IdleComparator
    /\ IdleAux

\* the input is a sequence of at most MaxDocs documents of the entry family
Init ==
    /\ \E n \in 0..MaxDocs : \E f \in [1..n -> EntryShapes] :
          configs = [k \in 1..n |-> EntryDoc(f[k], k)]
    /\ InitMerge

(***************************************************************************)
(* MergeAll, one action per step.                                          *)
(***************************************************************************)
\* an empty input answered with an empty document and no error
MergeAllEmptyLenient ==
    /\ pc = "start"
    /\ Len(configs) = 0
    /\ ret' = "result"
    /\ err' = NoError
    /\ pc' = "done"
    /\ UNCHANGED <<configs, i, result, base, replacements, prioA, prioB, cmp>>
    /\ UNCHANGED auxVars

\* if len(configs) == 0 { return nil, fmt.Errorf(...) }
MergeAllEmpty ==
    /\ pc = "start"
    /\ Len(configs) = 0
    /\ ret' = "nil"
    /\ err' = ErrNoConfigurations
    /\ pc' = "done"
    /\ UNCHANGED <<configs, i, result, base, replacements, prioA, prioB, cmp>>
    /\ UNCHANGED auxVars

\* the result is allocated and the mode chosen by findBaseTemplate
MergeAllBegin ==
    /\ pc = "start"
    /\ Len(configs) # 0
    /\ result' = NewResult
    /\ base' = findBaseTemplate(configs)
    /\ pc' = IF base' # 0 THEN "template" ELSE "standard"
    /\ i' = 1
    /\ UNCHANGED <<configs, ret, err, replacements, prioA, prioB, cmp>>
    /\ UNCHANGED auxVars

\* one iteration of the loop of the standard mode
StandardStep ==
    /\ pc = "standard"
    /\ i <= Len(configs)
    /\ result' = mergeMergeTargets(mergeMergePoints(mergeSections(
                    mergeMetadata(result, configs[i]), configs[i]), configs[i]), configs[i])
    /\ i' = i + 1
    /\ UNCHANGED <<configs, pc, ret, err, base, replacements, prioA, prioB, cmp>>
    /\ UNCHANGED auxVars

\* mergeWithTemplate: the base seeds the result
TemplateSeed ==
    /\ pc = "template"
    /\ result' = seedFromBase(result, configs[base])
    /\ pc' = "replace"
    /\ UNCHANGED <<configs, i, ret, err, base, replacements, prioA, prioB, cmp>>
    /\ UNCHANGED auxVars

\* mergeWithTemplate: applyPlaceholderReplacements(result, configs)
ApplyPlaceholderReplacements ==
    /\ pc = "replace"
    /\ \E t \in testCommandCandidates(configs), d \in docStandardCandidates(configs) :
          /\ replacements' = [testCommands |-> t, documentationStandards |-> d]
          /\ result' = applyReplacements(result, replacements')
    /\ pc' = "titles"
    /\ i' = 1
    /\ UNCHANGED <<configs, ret, err, base, prioA, prioB, cmp>>
    /\ UNCHANGED auxVars

\* mergeWithTemplate: one iteration of the loop over the documents' titles
TemplateTitleStep ==
    /\ pc = "titles"
    /\ i <= Len(configs)
    /\ result' = overrideTitle(result, configs, i, base)
    /\ i' = i + 1
    /\ UNCHANGED <<configs, pc, ret, err, base, replacements, prioA, prioB, cmp>>
    /\ UNCHANGED auxVars

\* return result, nil
MergeAllReturn ==
    /\ pc \in {"standard", "titles"}
    /\ i > Len(configs)
    /\ ret' = "result"
    /\ err' = NoError
    /\ pc' = "done"
    /\ UNCHANGED <<configs, i, result, base, replacements, prioA, prioB, cmp>>
    /\ UNCHANGED auxVars

Next ==
    \/ MergeAllEmpty
    \/ MergeAllBegin
    \/ StandardStep
    \/ TemplateSeed
    \/ ApplyPlaceholderReplacements
    \/ TemplateTitleStep
    \/ MergeAllReturn

Spec == Init /\ [][Next]_vars

(***************************************************************************)
(* Vocabulary of the properties.                                           *)
(***************************************************************************)
Returned == pc = "done"

Positions == 1..Len(configs)

\* the documents that have an entry under key k in the map named map
Holders(map, k) == {j \in Positions : k \in DOMAIN configs[j][map]}

AllKeys(map) == UNION {DOMAIN configs[j][map] : j \in Positions}

HasMarker(content) == ContainsAny(content, OpenPrefixTokens \cup ClosePrefixTokens)

\* no section of any input document holds a placeholder marker
NoMarkers ==
    \A j \in Positions : \A n \in DOMAIN configs[j].Sections :
        ~HasMarker(configs[j].Sections[n].Content)

\* document j has a section whose content holds an opening and a closing marker
HoldsMarkerPair(j) ==
    \E n \in DOMAIN configs[j].Sections :
        /\ ContainsAny(configs[j].Sections[n].Content, OpenPrefixTokens)
        /\ ContainsAny(configs[j].Sections[n].Content, ClosePrefixTokens)

\* no input document holds a marker pair: the inputs of the standard mode
StandardInputs == \A j \in Positions : ~HoldsMarkerPair(j)

SectionKind(j, k) == configs[j].Sections[k].Priority.Type

(***************************************************************************)
(* C1: MergeAll returns an error and no document exactly when the input    *)
(* sequence is empty; for a non-empty sequence it returns the merged       *)
(* document and no error.                                                  *)
(***************************************************************************)
C1_ErrorIffEmpty ==
    /\ Returned =>
          /\ (err # NoError /\ ret = "nil") <=> (Len(configs) = 0)
          /\ Len(configs) # 0 => (ret = "result" /\ err = NoError)
    /\ ~Returned => (ret = "pending" /\ err = NoError)

C1_Witness == Returned /\ Len(configs) = 0 /\ err = ErrNoConfigurations

(***************************************************************************)
(* C3: in standard mode, when two documents share a section key and both   *)
(* priorities on it are of kind none (whatever their magnitudes), the      *)
(* merge of the two has the later document's section under that key.       *)
(***************************************************************************)
C3_LaterWinsWithoutPriority ==
    (Returned /\ Len(configs) = 2 /\ NoMarkers) =>
        \A k \in DOMAIN configs[1].Sections \cap DOMAIN configs[2].Sections :
            (SectionKind(1, k) = PriorityNone /\ SectionKind(2, k) = PriorityNone)
                => result.Sections[k] = configs[2].Sections[k]

(***************************************************************************)
(* C4 as claimed: when X has an explicit priority on section key s and Y a *)
(* relative one, the merge of X and Y in either order has X's content      *)
(* under s, whatever else the two documents contain.                       *)
(***************************************************************************)
ExplicitVersusRelative(x, y, s) ==
    /\ s \in DOMAIN configs[x].Sections \cap DOMAIN configs[y].Sections
    /\ SectionKind(x, s) = PriorityExplicit
    /\ SectionKind(y, s) = PriorityRelative

C4_ExplicitWinsAlways ==
    (Returned /\ Len(configs) = 2) =>
        \A x \in {1, 2} : \A s \in DOMAIN configs[x].Sections :
            ExplicitVersusRelative(x, 3 - x, s)
                => result.Sections[s].Content = configs[x].Sections[s].Content

(***************************************************************************)
(* C4 amended: the same, provided no section of X or Y holds both an       *)
(* opening and a closing placeholder marker (the merge runs in standard    *)
(* mode).                                                                  *)
(***************************************************************************)
C4_ExplicitWinsInStandardMode ==
    (Returned /\ Len(configs) = 2 /\ StandardInputs) =>
        \A x \in {1, 2} : \A s \in DOMAIN configs[x].Sections :
            ExplicitVersusRelative(x, 3 - x, s)
                => result.Sections[s].Content = configs[x].Sections[s].Content

\* X first with explicit(0), Y later with the largest relative magnitude
C4_Witness ==
    /\ Returned /\ Len(configs) = 2 /\ NoMarkers
    /\ ExplicitVersusRelative(1, 2, "section1")
    /\ configs[1].Sections["section1"].Priority.Value = 0
    /\ configs[2].Sections["section1"].Priority.Value = MaxMag
    /\ result.Sections["section1"].Content = PlainBody(1)

(***************************************************************************)
(* C5: in standard mode, under every key of each of the three maps, the    *)
(* result has the entry of the document whose priority on the key no other *)
(* document's priority strictly outranks, the latest such document when    *)
(* several are tied.                                                       *)
(***************************************************************************)
\* document j holds the maximum on k, and no later holder is tied with it
WinsKey(map, k, j) ==
    /\ j \in Holders(map, k)
    /\ \A m \in Holders(map, k) :
          ~TakesPrecedenceOver(configs[m][map][k].Priority, configs[j][map][k].Priority)
    /\ \A m \in Holders(map, k) :
          m > j => TakesPrecedenceOver(configs[j][map][k].Priority,
                                       configs[m][map][k].Priority)

SignedMagnitudes == (0 - MaxMag)..MaxMag

SignedPriorities == {Priority(t, v) : t \in PriorityTypes, v \in SignedMagnitudes}

InitPriority ==
    /\ prioA \in SignedPriorities
    /\ prioB \in SignedPriorities
    /\ cmp = [strict |-> FALSE, orEqual |-> FALSE]
    /\ pc = "compare"
    /\ configs = <<>>
    /\ i = 0
    /\ result = NewResult
    /\ ret = "pending"
    /\ err = NoError
    /\ base = 0
    /\ replacements = NoReplacements
    /\ IdleAux

\* prioA.TakesPrecedenceOver(prioB) and prioA.TakesPrecedenceOverOrEqual(prioB)
Compare ==
    /\ pc = "compare"
    /\ cmp' = [strict |-> TakesPrecedenceOver(prioA, prioB),
               orEqual |-> TakesPrecedenceOverOrEqual(prioA, prioB)]
    /\ pc' = "compared"
    /\ UNCHANGED <<configs, i, result, ret, err, base, replacements, prioA, prioB>>
    /\ UNCHANGED auxVars

NextPriority == Compare

SpecPriority == InitPriority /\ [][NextPriority]_vars

(***************************************************************************)
(* C6: TakesPrecedenceOver(A, B) holds exactly when A is explicit and B is *)
(* not, or A and B have the same kind and A's magnitude is strictly        *)
(* greater, or A is relative and B is none.                                *)
(***************************************************************************)
C6_StrictPrecedence ==
    pc = "compared" =>
        (cmp.strict <=>
            \/ (prioA.Type = PriorityExplicit /\ prioB.Type # PriorityExplicit)
            \/ (prioA.Type = prioB.Type /\ prioA.Value > prioB.Value)
            \/ (prioA.Type = PriorityRelative /\ prioB.Type = PriorityNone))

\* the smallest explicit priority outranks the largest relative one
C6_Witness ==
    /\ pc = "compared"
    /\ prioA = NewExplicitPriority(0 - MaxMag)
    /\ prioB = NewRelativePriority(MaxMag)
    /\ cmp.strict

(***************************************************************************)
(* C7: TakesPrecedenceOverOrEqual(A, B) equals TakesPrecedenceOver(A, B),  *)
(* except that it also holds when A and B have the same kind and the same  *)
(* magnitude, and whenever both are of kind none, whatever the magnitudes. *)
(***************************************************************************)
C7_PrecedenceOrEqual ==
    pc = "compared" =>
        (cmp.orEqual <=>
            \/ cmp.strict
            \/ (prioA.Type = prioB.Type /\ prioA.Value = prioB.Value)
            \/ (prioA.Type = PriorityNone /\ prioB.Type = PriorityNone))

(***************************************************************************)
(* The metadata family of inputs: documents that differ in their Metadata  *)
(* Priority, in whether they carry a title and in which fields they        *)
(* supply.  One template document lets the template mode run as well.      *)
(***************************************************************************)
MetaPriorities ==
    {ZeroPriority, NewRelativePriority(1), NewRelativePriority(2), NewExplicitPriority(1)}

MetaShapes ==
    [t : BOOLEAN, d : BOOLEAN, p : MetaPriorities, tpl : {FALSE}]
    \cup {[t |-> TRUE, d |-> TRUE, p |-> NewRelativePriority(1), tpl |-> TRUE]}

\* the text of a metadata field of the document at position k, or ""
FieldText(present, name, k) == IF present THEN <<name, Tag(k)>> ELSE EmptyString

MetaDoc(shape, k) ==
    Config(
        Metadata(FieldText(shape.t, "Title", k),
                 FieldText(shape.d, "description", k),
                 FieldText(shape.d, "version", k),
                 FieldText(shape.t, "language", k),
                 FieldText(shape.t /\ shape.d, "extends", k),
                 shape.p),
        "content" :> Section(1, IF shape.tpl THEN TemplateBody(k) ELSE PlainBody(k),
                             ZeroPriority),
        EmptyMap,
        EmptyMap,
        <<"file", Tag(k)>>)

InitMeta ==
    /\ \E n \in 0..MaxDocs : \E f \in [1..n -> MetaShapes] :
          configs = [k \in 1..n |-> MetaDoc(f[k], k)]
    /\ InitMerge

SpecMeta == InitMeta /\ [][Next]_vars

FieldNames == {"Description", "Version", "Language", "Extends"}

\* the documents that supply a non-empty value for the metadata field f
Suppliers(f) == {j \in Positions : configs[j].Metadata[f] # EmptyString}

Titled == Suppliers("Title")

\* document j has the highest Metadata Priority among the documents of set S,
\* and is the latest of those tied with it
WinsMetadata(S, j) ==
    /\ j \in S
    /\ \A m \in S : ~TakesPrecedenceOver(configs[m].Metadata.Priority,
                                         configs[j].Metadata.Priority)
    /\ \A m \in S : m > j => TakesPrecedenceOver(configs[j].Metadata.Priority,
                                                 configs[m].Metadata.Priority)

ContentNames ==
    {"plain", "template", "onlyOpen", "onlyClose", "otherPair", "testSource", "split"}

ContentOf(name, k) ==
    CASE name = "plain" -> PlainBody(k)
      [] name = "template" -> TemplateBody(k)
      [] name = "onlyOpen" -> <<"body", Tag(k), NL, OpenTest, NL, "open">>
      [] name = "onlyClose" -> <<"body", Tag(k), NL, CloseDoc>>
      [] name = "otherPair" -> <<OpenOther, "build", Tag(k), CloseOther>>
      [] name = "testSource" ->
            <<"###", TestingCommands, NL, "- unit", Tag(k), NL, "- race", Tag(k)>>
      [] name = "split" -> <<"body", Tag(k), NL, OpenDoc>>

TemplatePriorities == {NewRelativePriority(1), NewExplicitPriority(1)}

TemplateShapes ==
    [c : ContentNames, p : {ZeroPriority}, t : {TRUE}]
    \cup [c : {"plain", "template"}, p : TemplatePriorities, t : BOOLEAN]
    \cup {[c |-> "plain", p |-> Priority(PriorityNone, 1), t |-> TRUE]}

\* The document has the priority p on its metadata and on every entry; its
\* section "content" holds the named content, and its own key Tag(k) holds a
\* section, a merge point and a merge target.
TemplateDoc(shape, k) ==
    LET own == Tag(k)
    IN  Config(
            Metadata(FieldText(shape.t, "Title", k),
                     <<"description", own>>, <<"version", own>>, EmptyString, EmptyString,
                     shape.p),
            ("content" :> Section(1, ContentOf(shape.c, k), shape.p))
                @@ (own :> Section(k + 1,
                                   IF shape.c = "split" THEN <<CloseDoc, "own", own>>
                                   ELSE <<"own", own>>,
                                   shape.p)),
            ("point1" :> MergePoint(<<"MERGE", own>>, <<"default", own>>, shape.p))
                @@ (own :> MergePoint(<<"MERGE">>, <<"default">>, shape.p)),
            own :> MergeTarget(<<"prepend">>, <<"target", own>>, shape.p),
            <<"file", own>>)

InitTemplate ==
    /\ \E n \in 0..MaxDocs : \E f \in [1..n -> TemplateShapes] :
          configs = [k \in 1..n |-> TemplateDoc(f[k], k)]
    /\ InitMerge

SpecTemplate == InitTemplate /\ [][Next]_vars

\* the merge has chosen its mode
ModeChosen == pc \notin {"start", "compare", "compared"} /\ ret # "nil"

\* the first document that holds a marker pair, when there is one
FirstMarkerPair ==
    CHOOSE j \in Positions : HoldsMarkerPair(j) /\ \A m \in 1..(j - 1) : ~HoldsMarkerPair(m)

\* section a equals section b in every field other than the content
SameButContent(a, b) == [a EXCEPT !.Content = b.Content] = b

(***************************************************************************)
(* C2 as claimed: for every document D, whatever its sections contain,     *)
(* MergeAll([D]) returns D's sections, merge points and merge targets      *)
(* (same keys, same entries, every content unchanged) and D's title.       *)
(***************************************************************************)
C2_SingleDocumentUnchanged ==
    (Returned /\ Len(configs) = 1) =>
        /\ result.Sections = configs[1].Sections
        /\ result.MergePoints = configs[1].MergePoints
        /\ result.MergeTargets = configs[1].MergeTargets
        /\ result.Metadata.Title = configs[1].Metadata.Title

(***************************************************************************)
(* C2 amended: MergeAll([D]) returns D's merge points, merge targets and   *)
(* title, and D's sections in every field other than the content; the      *)
(* contents too are unchanged when no section of D holds both an opening   *)
(* and a closing placeholder marker.                                       *)
(***************************************************************************)
C2_SingleDocumentUnchangedButMarkers ==
    (Returned /\ Len(configs) = 1) =>
        /\ DOMAIN result.Sections = DOMAIN configs[1].Sections
        /\ \A n \in DOMAIN configs[1].Sections :
              SameButContent(result.Sections[n], configs[1].Sections[n])
        /\ result.MergePoints = configs[1].MergePoints
        /\ result.MergeTargets = configs[1].MergeTargets
        /\ result.Metadata.Title = configs[1].Metadata.Title
        /\ ~HoldsMarkerPair(1) => result.Sections = configs[1].Sections

\* a single document with an opening marker and no closing one comes back whole
C2_Witness ==
    /\ Returned /\ Len(configs) = 1
    /\ ~HoldsMarkerPair(1)
    /\ Contains(configs[1].Sections["content"].Content, OpenTest)
    /\ result.Sections = configs[1].Sections

(***************************************************************************)
(* C9: MergeAll runs in template mode exactly when some input document has *)
(* a section whose content holds both an opening and a closing placeholder *)
(* marker; the base template is then the first such document of the input  *)
(* sequence; otherwise the standard merge runs.                            *)
(***************************************************************************)
C9_TemplateModeDetection ==
    ModeChosen =>
        /\ (pc \in {"template", "replace", "titles"}) => base # 0
        /\ pc = "standard" => base = 0
        /\ (base # 0) <=> (\E j \in Positions : HoldsMarkerPair(j))
        /\ base # 0 => base = FirstMarkerPair

\* the first document holds one marker only, the two later ones a pair each
C9_Witness ==
    /\ pc = "titles" /\ Len(configs) = 3
    /\ HasMarker(configs[1].Sections["content"].Content)
    /\ ~HoldsMarkerPair(1) /\ HoldsMarkerPair(2) /\ HoldsMarkerPair(3)
    /\ base = 2

(***************************************************************************)
(* C10: in template mode the three maps of the result have exactly the     *)
(* base's keys; the merge points, the merge targets and every section      *)
(* field other than the content are the base's; description, version,      *)
(* language, extends and priority of the metadata are the base's; nothing  *)
(* of a non-base document's maps enters the result, whatever its priority. *)
(***************************************************************************)
C10_TemplateKeepsBase ==
    (Returned /\ \E j \in Positions : HoldsMarkerPair(j)) =>
        LET b == configs[FirstMarkerPair]
        IN  /\ DOMAIN result.Sections = DOMAIN b.Sections
            /\ \A n \in DOMAIN b.Sections : SameButContent(result.Sections[n], b.Sections[n])
            /\ result.MergePoints = b.MergePoints
            /\ result.MergeTargets = b.MergeTargets
            /\ [result.Metadata EXCEPT !.Title = b.Metadata.Title] = b.Metadata

\* a titled document of explicit priority stands before the base and takes
\* the title, and not one of its entries is in the result
C10_Witness ==
    /\ Returned /\ Len(configs) = 2
    /\ ~HoldsMarkerPair(1) /\ HoldsMarkerPair(2)
    /\ configs[1].Sections["content"].Priority = NewExplicitPriority(1)
    /\ configs[2].Sections["content"].Priority = ZeroPriority
    /\ result.Metadata.Title = configs[1].Metadata.Title
    /\ result.Metadata.Priority = ZeroPriority
    /\ DOMAIN result.Sections = {"content", "2"}

\* the non-base documents with a title whose Metadata Priority strictly
\* outranks the base's
Outrankers ==
    {j \in Positions \ {base} :
        /\ configs[j].Metadata.Title # EmptyString
        /\ TakesPrecedenceOver(configs[j].Metadata.Priority, configs[base].Metadata.Priority)}

(***************************************************************************)
(* C14: in template mode the result's title differs from the base's only   *)
(* if some non-base document with a non-empty title has a Metadata         *)
(* Priority that strictly outranks the base's, and it is then the title of *)
(* such a document; a document that merely ties with the base (none versus *)
(* none included) never changes the title.                                 *)
(***************************************************************************)
C14_TitleOnlyByStrictOutrank ==
    (base # 0 /\ pc \in {"titles", "done"}) =>
        /\ result.Metadata.Title # configs[base].Metadata.Title
              => \E j \in Outrankers : result.Metadata.Title = configs[j].Metadata.Title
        /\ Outrankers = {} => result.Metadata.Title = configs[base].Metadata.Title

\* the base and a later titled document tie, once at kind none and once at
\* the same relative magnitude, and the base's title stays
C14_Witness ==
    /\ Returned /\ Len(configs) = 3 /\ base = 2
    /\ configs[1].Metadata.Title # EmptyString
    /\ configs[3].Metadata.Title # EmptyString
    /\ configs[2].Metadata.Priority = NewRelativePriority(1)
    /\ configs[3].Metadata.Priority = NewRelativePriority(1)
    /\ configs[1].Metadata.Priority = ZeroPriority
    /\ result.Metadata.Title = configs[2].Metadata.Title

(***************************************************************************)
(* The replacement family of inputs: documents whose section "content"     *)
(* holds one marker pair, two pairs of one name, a closing tag before the  *)
(* opening one, a pair of a name the merger has no extractor for, the text *)
(* an extractor recognizes, or such a text followed by a marker pair.      *)
(***************************************************************************)
ReplaceNames ==
    {"plain", "template", "twoPairs", "reversed", "otherPair", "docPair",
     "testSource", "docSource", "selfSource"}

ReplaceContent(name, k) ==
    CASE name = "plain" -> PlainBody(k)
      [] name = "template" -> TemplateBody(k)
      [] name = "twoPairs" ->
            <<OpenTest, "first", CloseTest, NL, "between", Tag(k), NL,
              OpenTest, "second", CloseTest>>
      [] name = "reversed" -> <<CloseTest, NL, "inside", Tag(k), NL, OpenTest>>
      [] name = "otherPair" ->
            <<"before", Tag(k), NL, OpenOther, "build", CloseOther, NL, "after">>
      [] name = "docPair" -> <<OpenDoc, "standards", CloseDoc, NL, "after", Tag(k)>>
      [] name = "testSource" ->
            <<"###", TestingCommands, NL, "- unit", Tag(k), NL, "- race", Tag(k)>>
      [] name = "docSource" ->
            <<"###", DocumentationStandards, NL, "doc line", Tag(k)>>
      [] name = "selfSource" ->
            <<"###", TestingCommands, NL, "- own", Tag(k), NL,
              OpenTest, "placeholder", CloseTest>>

\* The document holds the named content in its section "content" and, under
\* its own key Tag(k), a second section that repeats the test-commands pair
\* when the first one is a template.
ReplaceDoc(name, k) ==
    LET own == Tag(k)
    IN  Config(
            Metadata(<<"Title", own>>, EmptyString, EmptyString, EmptyString, EmptyString,
                     ZeroPriority),
            ("content" :> Section(1, ReplaceContent(name, k), ZeroPriority))
                @@ (own :> Section(k + 1,
                                   IF name = "template"
                                   THEN <<"own", own, NL, OpenTest, CloseTest>>
                                   ELSE <<"own", own>>,
                                   ZeroPriority)),
            EmptyMap,
            EmptyMap,
            <<"file", own>>)

InitReplace ==
    /\ \E n \in 0..MaxDocs : \E f \in [1..n -> ReplaceNames] :
          configs = [k \in 1..n |-> ReplaceDoc(f[k], k)]
    /\ InitMerge

SpecReplace == InitReplace /\ [][Next]_vars

\* the closing tag of an opening tag
CloseOf(openTag) ==
    CASE openTag = OpenTest -> CloseTest
      [] openTag = OpenDoc -> CloseDoc
      [] openTag = OpenOther -> CloseOther

\* position k of content holds an opening tag whose closing tag comes later
OpensBlock(content, k) ==
    /\ content[k] \in OpenPrefixTokens
    /\ \E j \in (k + 1)..Len(content) : content[j] = CloseOf(content[k])

RECURSIVE WithoutBlocks(_)
\* content without its marker blocks: every opening tag that has its closing
\* tag after it is removed together with that tag and the text in between
WithoutBlocks(content) ==
    IF \E k \in 1..Len(content) : OpensBlock(content, k)
    THEN LET k == CHOOSE x \in 1..Len(content) :
                    OpensBlock(content, x) /\ \A y \in 1..(x - 1) : ~OpensBlock(content, y)
             j == CHOOSE x \in (k + 1)..Len(content) :
                    /\ content[x] = CloseOf(content[k])
                    /\ \A y \in (k + 1)..(x - 1) : content[y] # CloseOf(content[k])
         IN  WithoutBlocks(SubSeq(content, 1, k - 1) \o SubSeq(content, j + 1, Len(content)))
    ELSE content

\* sub occurs in s as a run of consecutive tokens
ContainsSeq(s, sub) ==
    \E k \in 0..(Len(s) - Len(sub)) : SubSeq(s, k + 1, k + Len(sub)) = sub

\* the template mode has run to its end
TemplateReturned == Returned /\ ret = "result" /\ base # 0

\* On a section whose tags openTag and closeTag all stand in blocks: none of
\* the two tags is left in the result and the text is there instead.
ReplacedBy(n, openTag, closeTag, text) ==
    LET before == configs[base].Sections[n].Content
        after == result.Sections[n].Content
    IN  (/\ Contains(before, openTag)
         /\ ~Contains(WithoutBlocks(before), openTag)
         /\ ~Contains(WithoutBlocks(before), closeTag))
            => /\ ~Contains(after, openTag)
               /\ ~Contains(after, closeTag)
               /\ ContainsSeq(after, text)

(***************************************************************************)
(* C11: in template mode, when replacement text was extracted for a        *)
(* placeholder name, every occurrence of that name's marker pair in every  *)
(* section of the result is replaced by the extracted text: no opening and *)
(* no closing tag of the name is left anywhere in the result.              *)
(***************************************************************************)
C11_EveryOccurrenceReplaced ==
    TemplateReturned =>
        \A n \in DOMAIN result.Sections :
            /\ replacements.testCommands # EmptyString
                  => ReplacedBy(n, OpenTest, CloseTest, replacements.testCommands)
            /\ replacements.documentationStandards # EmptyString
                  => ReplacedBy(n, OpenDoc, CloseDoc, replacements.documentationStandards)

(***************************************************************************)
(* C12: in template mode, when no replacement text was found, every marker *)
(* block of the base's content (opening tag, closing tag and the text in   *)
(* between) is removed from the result's section content, so that no       *)
(* marker tag that stood in a block is left, and the text outside the      *)
(* blocks is unchanged.                                                    *)
(***************************************************************************)
C12_UnfilledMarkersRemoved ==
    (TemplateReturned /\ replacements = NoReplacements) =>
        \A n \in DOMAIN result.Sections :
            result.Sections[n].Content = WithoutBlocks(configs[base].Sections[n].Content)

(***************************************************************************)
(* The loader (internal/config): DetectFormat, ParseConfig, parseMarkdown, *)
(* LoadConfig and ValidateConfig.                                          *)
(*                                                                         *)
(* A file is a name and its bytes.  A name is its stem followed by its     *)
(* ending.  The bytes of a prose file are its text.  The TOML and YAML     *)
(* decoders are libraries: the bytes of a structured file are given by     *)
(* whether they decode and by the Config the decoder fills from them,      *)
(* whose absent tables are nil maps.                                       *)
(***************************************************************************)
FormatTOML == 0
FormatYAML == 1
FormatMarkdown == 2

\* the frontmatter delimiter
Delim == "---"

\* a token no YAML document can hold
BadYaml == "[unclosed"

ErrReadFile == "failed to read file"
ErrUnsupportedFormat == "unsupported file format"
ErrTOMLParse == "TOML parse error"
ErrYAMLParse == "YAML parse error"
ErrFrontmatter == "Markdown parse error: failed to parse frontmatter"
ErrMissingTitle == "config missing title in metadata"
ErrNoSections == "config has no sections"
ErrInvalidPriority == "section has invalid priority value"

\* strings.ToLower on the tokens that have upper-case letters
ToLower(tok) ==
    CASE tok = ".MD" -> ".md"
      [] tok = "Explicit" -> "explicit"
      [] OTHER -> tok

DetectFormat(filename) ==
    LET ending == ToLower(filename[Len(filename)])
    IN  IF ending = ".toml" THEN [format |-> FormatTOML, err |-> NoError]
        ELSE IF ending \in {".yaml", ".yml"} THEN [format |-> FormatYAML, err |-> NoError]
        ELSE IF ending \in {".md", ".markdown"} THEN [format |-> FormatMarkdown, err |-> NoError]
        ELSE [format |-> FormatTOML, err |-> ErrUnsupportedFormat]

\* var config Config: the zero value, whose maps are nil
ZeroConfig ==
    [Metadata |-> ZeroMetadata, SourceFile |-> EmptyString, Sections |-> EmptyMap,
     MergePoints |-> EmptyMap, MergeTargets |-> EmptyMap, NilMaps |-> MapNames]

RECURSIVE SplitN(_, _, _)
\* strings.SplitN(s, sep, n) for n >= 1
SplitN(s, sep, n) ==
    IF n = 1 \/ ~Contains(s, sep) THEN <<s>>
    ELSE LET k == Index(s, sep)
         IN  <<SubSeq(s, 1, k - 1)>> \o SplitN(SubSeq(s, k + 1, Len(s)), sep, n - 1)

\* The frontmatter as yaml.Unmarshal reads it into a map.  A block is lines
\* of a key token followed by its scalar; "priority:" opens the nested map
\* whose lines are "type:" and "value:".  The scalar of a key, as a string of
\* at most one token:
yamlScalar(block, key) ==
    IF \E k \in 1..(Len(block) - 1) : block[k] = key /\ block[k + 1] # NL
    THEN <<block[Index(block, key) + 1]>>
    ELSE EmptyString

\* the scalars YAML reads as integers, and their values
IntTokens == {"-1", "0", "1", "2"}

IntOf(tok) ==
    CASE tok = "-1" -> 0 - 1
      [] tok = "0" -> 0
      [] tok = "1" -> 1
      [] tok = "2" -> 2

\* the type assertions v.(string) and v.(int) on a scalar
IsString(v) == Len(v) = 1 /\ v[1] \notin IntTokens
IsInt(v) == Len(v) = 1 /\ v[1] \in IntTokens

\* the metadata field f takes the scalar of key when it is a string
frontmatterField(md, block, f, key) ==
    IF IsString(yamlScalar(block, key)) THEN [md EXCEPT ![f] = yamlScalar(block, key)] ELSE md

\* the priority block of the frontmatter
frontmatterPriority(md, block) ==
    LET priorityType == yamlScalar(block, "type:")
        priorityValue == yamlScalar(block, "value:")
    IN  IF Contains(block, "priority:") /\ IsString(priorityType) /\ IsInt(priorityValue)
        THEN [md EXCEPT !.Priority =
                [Value |-> IntOf(priorityValue[1]),
                 Type |-> IF ToLower(priorityType[1]) = "explicit" THEN PriorityExplicit
                          ELSE IF ToLower(priorityType[1]) = "relative" THEN PriorityRelative
                          ELSE @.Type]]
        ELSE md

frontmatterMetadata(md, block) ==
    frontmatterPriority(
        frontmatterField(
            frontmatterField(
                frontmatterField(
                    frontmatterField(md, block, "Title", "title:"),
                    block, "Description", "description:"),
                block, "Version", "version:"),
            block, "Language", "language:"),
        block)

\* config.Sections["content"] = Section{Order: 1, Content: content}
withContentSection(config, content) ==
    [config EXCEPT !.Sections = "content" :> Section(1, content, ZeroPriority),
                   !.NilMaps = @ \ {"Sections"}]

\* the title a prose document without frontmatter gets
UntitledDocument == <<"Untitled Document">>

\* a normalizer that leaves the title of a prose document empty
withoutDefaultTitle(config) == config

\* if config.Metadata.Title == "" { config.Metadata.Title = "Untitled Document" }
withDefaultTitle(config) ==
    IF config.Metadata.Title = EmptyString
    THEN [config EXCEPT !.Metadata.Title = UntitledDocument]
    ELSE config

parseMarkdown(content) ==
    IF HasPrefixIn(content, {Delim})
    THEN LET parts == SplitN(content, Delim, 3)
         IN  IF Len(parts) >= 3
             THEN LET frontmatter == TrimSpace(parts[2])
                      markdownContent == TrimSpace(parts[3])
                      withMetadata ==
                          [ZeroConfig EXCEPT !.Metadata = frontmatterMetadata(@, frontmatter)]
                  IN  IF Contains(frontmatter, BadYaml)
                      THEN [config |-> ZeroConfig, err |-> ErrFrontmatter]
                      ELSE IF markdownContent # EmptyString
                      THEN [config |-> withContentSection(withMetadata, markdownContent),
                            err |-> NoError]
                      ELSE [config |-> withMetadata, err |-> NoError]
             ELSE [config |-> ZeroConfig, err |-> NoError]
    ELSE [config |-> withDefaultTitle(withContentSection(ZeroConfig, TrimSpace(content))),
          err |-> NoError]

\* a normalizer that leaves the nil maps nil
leaveMaps(config) == config

\* the three "if config.X == nil { config.X = make(...) }" of ParseConfig
initializeMaps(config) == [config EXCEPT !.NilMaps = {}]

ParseConfig(data, format) ==
    LET parsed ==
            IF format = FormatTOML
            THEN IF data.decodes THEN [config |-> data.decoded, err |-> NoError]
                 ELSE [config |-> ZeroConfig, err |-> ErrTOMLParse]
            ELSE IF format = FormatYAML
            THEN IF data.decodes THEN [config |-> data.decoded, err |-> NoError]
                 ELSE [config |-> ZeroConfig, err |-> ErrYAMLParse]
            ELSE parseMarkdown(data.text)
    IN  IF parsed.err # NoError THEN parsed
        ELSE [config |-> initializeMaps(parsed.config), err |-> NoError]

LoadConfig(file) ==
    LET detected == DetectFormat(file.name)
        parsed == ParseConfig(file.data, detected.format)
    IN  IF ~file.data.readable THEN [config |-> ZeroConfig, err |-> ErrReadFile]
        ELSE IF detected.err # NoError THEN [config |-> ZeroConfig, err |-> detected.err]
        ELSE IF parsed.err # NoError THEN parsed
        ELSE [config |-> [parsed.config EXCEPT !.SourceFile = file.name], err |-> NoError]

\* a validator that rejects a negative magnitude whatever the kind
invalidPriorityAnyKind(section) == section.Priority.Value < 0

\* section.Priority.Type != PriorityNone && section.Priority.Value < 0
invalidPriority(section) ==
    section.Priority.Type # PriorityNone /\ section.Priority.Value < 0

ValidateConfig(config) ==
    IF config.Metadata.Title = EmptyString THEN ErrMissingTitle
    ELSE IF Cardinality(DOMAIN config.Sections) = 0 THEN ErrNoSections
    ELSE IF \E name \in DOMAIN config.Sections : invalidPriority(config.Sections[name])
         THEN ErrInvalidPriority
    ELSE NoError

(***************************************************************************)
(* The command (cmd/claude-merge): the files are loaded in merge order,    *)
(* validated when -validate is given, and merged.                          *)
(***************************************************************************)
MaxFiles == 2

\* a prose file
Prose(stem, ending, text) ==
    [name |-> <<stem, ending>>,
     data |-> [readable |-> TRUE, text |-> text, decodes |-> TRUE, decoded |-> ZeroConfig]]

\* a structured file: whether its bytes decode, and the Config they decode to
Structured(stem, ending, decodes, decoded) ==
    [name |-> <<stem, ending>>,
     data |-> [readable |-> TRUE, text |-> EmptyString, decodes |-> decodes,
               decoded |-> decoded]]

\* a file that exists and cannot be read
Unreadable(stem, ending) ==
    [name |-> <<stem, ending>>,
     data |-> [readable |-> FALSE, text |-> EmptyString, decodes |-> FALSE,
               decoded |-> ZeroConfig]]

\* the texts of the prose files without frontmatter
PlainText == <<NL, "#", "Plain", NL, NL, "plain text", NL>>
BaseText == <<"#", "Base", NL, OpenTest, NL, "placeholder", NL, CloseTest, NL, "end">>
LangText == <<"#", "Lang", NL, "###", TestingCommands, NL, "- unit", NL, "- race">>
\* a base whose own text mentions the command the test heuristic looks for
SelfText == <<"run", GoTestAll, "first", NL, OpenTest, "placeholder", CloseTest>>

\* the texts of the prose files with frontmatter: complete, without closing
\* delimiter, without body, and with a block that is not YAML
FrontText ==
    <<Delim, NL, "title:", "Front", NL, "version:", "2", NL, "priority:", NL,
      "type:", "Explicit", NL, "value:", "2", NL, Delim, NL, NL, "front body", NL>>
UnclosedText == <<Delim, NL, "title:", "Open", NL, NL, "lost body">>
BareText == <<Delim, NL, "title:", "Bare", NL, Delim, NL>>
BrokenText == <<Delim, NL, BadYaml, NL, Delim, NL, "body">>

\* a TOML file with metadata and one section, its other tables absent
RulesConfig ==
    [ZeroConfig EXCEPT
        !.Metadata = Metadata(<<"Rules">>, <<"rules">>, EmptyString, <<"go">>, EmptyString,
                              NewRelativePriority(1)),
        !.Sections = "content" :> Section(2, <<"toml text">>, NewRelativePriority(1)),
        !.NilMaps = {"MergePoints", "MergeTargets"}]

InputFiles ==
    {Prose("plain", ".MD", PlainText),
     Prose("base", ".md", BaseText),
     Prose("lang", ".markdown", LangText),
     Prose("self", ".md", SelfText),
     Prose("empty", ".md", EmptyString),
     Prose("front", ".md", FrontText),
     Prose("unclosed", ".md", UnclosedText),
     Prose("bare", ".md", BareText),
     Prose("broken", ".md", BrokenText),
     Structured("rules", ".toml", TRUE, RulesConfig),
     Structured("nothing", ".yaml", TRUE, ZeroConfig),
     Structured("bad", ".yml", FALSE, ZeroConfig),
     Prose("notes", ".txt", PlainText),
     Unreadable("locked", ".toml")}

\* the state of main after validateArgs: at least one file, none loaded yet
InitMain ==
    /\ \E n \in 1..MaxFiles : files \in [1..n -> InputFiles]
    /\ validate \in BOOLEAN
    /\ configs = <<>>
    /\ pc = "load"
    /\ fatal = NoError
    /\ verdict = NoError
    /\ i = 0
    /\ result = NewResult
    /\ ret = "pending"
    /\ err = NoError
    /\ base = 0
    /\ replacements = NoReplacements
    /\ IdleComparator
    /\ argStrategy = EmptyString
    /\ argOld = EmptyString
    /\ argNew = EmptyString
    /\ applied = EmptyString
    /\ earlier = NotInvoked
    /\ written = FALSE

\* a loading loop that reports the error of a file and goes on to the next
\* file without it
LoadFileSkipping ==
    /\ pc = "load"
    /\ Len(configs) < Len(files)
    /\ LET loaded == LoadConfig(files[Len(configs) + 1])
       IN  IF loaded.err # NoError
           THEN /\ fatal' = loaded.err
                /\ files' = [k \in 1..(Len(files) - 1) |->
                                IF k <= Len(configs) THEN files[k] ELSE files[k + 1]]
                /\ pc' = IF Len(files') = 0 THEN "fatal" ELSE "load"
                /\ UNCHANGED configs
           ELSE configs' = Append(configs, loaded.config) /\ UNCHANGED <<fatal, pc, files>>
    /\ UNCHANGED <<i, result, ret, err, base, replacements, prioA, prioB, cmp>>
    /\ UNCHANGED <<validate, verdict, argStrategy, argOld, argNew, applied,
                   earlier, written>>

\* one iteration of the loading loop of main: LoadConfig, ValidateConfig
\* under -validate, append; an error ends the run (log.Fatalf)
LoadFile ==
    /\ pc = "load"
    /\ Len(configs) < Len(files)
    /\ LET loaded == LoadConfig(files[Len(configs) + 1])
           invalid == IF validate /\ loaded.err = NoError
                      THEN ValidateConfig(loaded.config) ELSE NoError
       IN  IF loaded.err # NoError
           THEN fatal' = loaded.err /\ pc' = "fatal" /\ UNCHANGED configs
           ELSE IF invalid # NoError
           THEN fatal' = invalid /\ pc' = "fatal" /\ UNCHANGED configs
           ELSE configs' = Append(configs, loaded.config) /\ UNCHANGED <<fatal, pc>>
    /\ UNCHANGED <<i, result, ret, err, base, replacements, prioA, prioB, cmp>>
    /\ UNCHANGED <<files, validate, verdict, argStrategy, argOld, argNew, applied,
                   earlier, written>>

\* after the loop: under -validate main returns, otherwise it calls MergeAll
AfterLoad ==
    /\ pc = "load"
    /\ Len(configs) = Len(files)
    /\ pc' = IF validate THEN "validated" ELSE "start"
    /\ UNCHANGED <<configs, i, result, ret, err, base, replacements, prioA, prioB, cmp>>
    /\ UNCHANGED auxVars

\* the error of a failed os.WriteFile
ErrWriteOutput == "Failed to write output"

\* after MergeAll returned a document: GenerateMarkdown and os.WriteFile,
\* which writes the output file or fails
WriteOutput ==
    /\ pc = "done"
    /\ ret = "result"
    /\ \E ok \in BOOLEAN :
          IF ok THEN written' = TRUE /\ pc' = "written" /\ UNCHANGED fatal
          ELSE fatal' = ErrWriteOutput /\ pc' = "writeFailed" /\ UNCHANGED written
    /\ UNCHANGED <<configs, i, result, ret, err, base, replacements, prioA, prioB, cmp>>
    /\ UNCHANGED <<files, validate, verdict, argStrategy, argOld, argNew, applied, earlier>>

NextMain ==
    \/ LoadFile
    \/ AfterLoad
    \/ MergeAllBegin
    \/ StandardStep
    \/ TemplateSeed
    \/ ApplyPlaceholderReplacements
    \/ TemplateTitleStep
    \/ MergeAllReturn
    \/ WriteOutput

SpecMain == InitMain /\ [][NextMain]_vars

(***************************************************************************)
(* Vocabulary of the properties of the command.                            *)
(***************************************************************************)
\* the file at position k is a prose file
IsProseFile(k) == DetectFormat(files[k].name) = [format |-> FormatMarkdown, err |-> NoError]

\* the prose file at position k has no frontmatter / begins with the delimiter
WithoutFrontmatter(k) == IsProseFile(k) /\ ~HasPrefixIn(files[k].data.text, {Delim})
WithFrontmatter(k) == IsProseFile(k) /\ HasPrefixIn(files[k].data.text, {Delim})

\* the files loaded so far: file k became document configs[k]
LoadedFiles == 1..Len(configs)

\* the tokens that start a bullet line
BulletTokens == {"- unit", "- race"}

IsBullet(line) == HasPrefixIn(line, BulletTokens)

\* the bullet lines that directly follow a line containing "Testing commands"
TestBullets(content) ==
    LET lines == Split(content)
    IN  {lines[j] : j \in {x \in 2..Len(lines) :
            \E h \in 1..(x - 1) :
                /\ Contains(lines[h], TestingCommands)
                /\ \A m \in (h + 1)..x : IsBullet(lines[m])}}

\* the tokens of text between the first test-commands tags of content
Between(content) ==
    {content[k] : k \in (Index(content, OpenTest) + 1)..(Index(content, CloseTest) - 1)}
        \ {NL}

\* document b holds the test-commands pair, document s the bullets
BaseAndBullets(b, s) ==
    /\ IsProseFile(b) /\ IsProseFile(s)
    /\ "content" \in DOMAIN configs[b].Sections
    /\ "content" \in DOMAIN configs[s].Sections
    /\ Contains(configs[b].Sections["content"].Content, OpenTest)
    /\ Contains(configs[b].Sections["content"].Content, CloseTest)
    /\ TestBullets(configs[s].Sections["content"].Content) # {}

(***************************************************************************)
(* C13: of two prose documents, one holds the test-commands marker pair    *)
(* and the other a line containing "Testing commands" followed by bullet   *)
(* lines; merged in either order, the content section of the result holds  *)
(* every bullet line, none of the two tags and none of the text that stood *)
(* between the tags.                                                       *)
(***************************************************************************)
C13_BulletsReplaceMarkers ==
    (Returned /\ Len(configs) = 2) =>
        \A b \in {1, 2} :
            BaseAndBullets(b, 3 - b) =>
                LET merged == result.Sections["content"].Content
                IN  /\ \A line \in TestBullets(configs[3 - b].Sections["content"].Content) :
                          ContainsSeq(merged, line)
                    /\ ~Contains(merged, OpenTest)
                    /\ ~Contains(merged, CloseTest)
                    /\ \A tok \in Between(configs[b].Sections["content"].Content) :
                          ~Contains(merged, tok)

(***************************************************************************)
(* C15: every document ParseConfig returns, from any of the three syntaxes *)
(* and any input that parses without error, and every document MergeAll    *)
(* returns, has its sections, merge-points and merge-targets maps          *)
(* allocated: empty when there are no entries, never nil.                  *)
(***************************************************************************)
C15_MapsNeverNil ==
    /\ \A k \in LoadedFiles : configs[k].NilMaps = {}
    /\ (Returned /\ ret = "result") => result.NilMaps = {}

\* a TOML file without merge-point and merge-target tables and a prose file
\* whose frontmatter is followed by no body, loaded and merged
C15_Witness ==
    /\ Returned /\ ret = "result" /\ Len(files) = 2
    /\ DetectFormat(files[1].name).format = FormatTOML
    /\ files[1].data.decoded.NilMaps = {"MergePoints", "MergeTargets"}
    /\ files[2].data.text = BareText
    /\ configs[2].Sections = EmptyMap
    /\ configs[1].NilMaps = {} /\ configs[2].NilMaps = {}
    /\ result.NilMaps = {}

\* text between its first and its last token that is not a newline
Trimmed(text) ==
    LET solid == {k \in 1..Len(text) : text[k] # NL}
    IN  IF solid = {} THEN EmptyString
        ELSE SubSeq(text, CHOOSE a \in solid : \A k \in solid : a <= k,
                          CHOOSE b \in solid : \A k \in solid : b >= k)

\* the run has been ended by an error on the file after the loaded ones
FailedOn(k) == pc = "fatal" /\ k = Len(configs) + 1

(***************************************************************************)
(* C16: a prose input that does not begin with the frontmatter delimiter   *)
(* is normalized to a document with exactly one section, keyed "content",  *)
(* of ordering hint 1 and priority none, whose content is the whole input  *)
(* trimmed, and with a non-empty placeholder title; ValidateConfig accepts *)
(* the document, so neither loading nor validation ends the run on it.     *)
(***************************************************************************)
C16_ProseWithoutFrontmatter ==
    /\ \A k \in LoadedFiles :
          WithoutFrontmatter(k) =>
              /\ DOMAIN configs[k].Sections = {"content"}
              /\ configs[k].Sections["content"].Order = 1
              /\ configs[k].Sections["content"].Priority.Type = PriorityNone
              /\ configs[k].Sections["content"].Content = Trimmed(files[k].data.text)
              /\ configs[k].Metadata.Title = UntitledDocument
              /\ configs[k].Metadata.Title # EmptyString
              /\ ValidateConfig(configs[k]) = NoError
    /\ \A k \in 1..Len(files) : WithoutFrontmatter(k) => ~FailedOn(k)

\* under -validate, a text with blank lines around it and an empty file
C16_Witness ==
    /\ pc = "validated" /\ validate /\ Len(files) = 2
    /\ files[1].data.text = PlainText
    /\ files[2].data.text = EmptyString
    /\ WithoutFrontmatter(1) /\ WithoutFrontmatter(2)
    /\ configs[1].Sections["content"].Content = <<"#", "Plain", NL, NL, "plain text">>
    /\ configs[2].Sections["content"].Content = EmptyString
    /\ configs[2].Metadata.Title = UntitledDocument

\* the text at position k has a closing delimiter after the opening one
Closed(text) == Len(SplitN(text, Delim, 3)) = 3

\* the block between the delimiters and the body after the closing one
BlockOf(text) == SplitN(text, Delim, 3)[2]
BodyOf(text) == IF Closed(text) THEN SplitN(text, Delim, 3)[3] ELSE EmptyString

\* the block gives a scalar to the key
Gives(block, key) == \E k \in 1..(Len(block) - 1) : block[k] = key /\ block[k + 1] # NL

\* the scalar the block gives to the key
ScalarOf(block, key) ==
    block[(CHOOSE k \in 1..(Len(block) - 1) : block[k] = key /\ block[k + 1] # NL) + 1]

\* the priority kind a frontmatter names
KindOf(name) ==
    IF ToLower(name) = "explicit" THEN PriorityExplicit
    ELSE IF ToLower(name) = "relative" THEN PriorityRelative
    ELSE PriorityNone

FrontmatterKeys ==
    {<<"Title", "title:">>, <<"Description", "description:">>,
     <<"Version", "version:">>, <<"Language", "language:">>}

(***************************************************************************)
(* C17: a prose input that begins with the frontmatter delimiter is        *)
(* normalized to a document whose title, description, version, language    *)
(* and priority (kind and magnitude) are those of the block between the    *)
(* delimiters, and that has exactly one section, keyed "content", of       *)
(* ordering hint 1, whose content is the trimmed remainder of the input    *)
(* after the closing delimiter: no part of the body is lost.               *)
(***************************************************************************)
C17_ProseWithFrontmatter ==
    \A k \in LoadedFiles :
        WithFrontmatter(k) =>
            LET text == files[k].data.text
                block == BlockOf(text)
            IN  /\ DOMAIN configs[k].Sections = {"content"}
                /\ configs[k].Sections["content"].Order = 1
                /\ configs[k].Sections["content"].Content = Trimmed(BodyOf(text))
                /\ \A fk \in FrontmatterKeys :
                      Gives(block, fk[2])
                          => configs[k].Metadata[fk[1]] = <<ScalarOf(block, fk[2])>>
                /\ (Gives(block, "type:") /\ Gives(block, "value:"))
                      => configs[k].Metadata.Priority =
                            Priority(KindOf(ScalarOf(block, "type:")),
                                     IntOf(ScalarOf(block, "value:")))

(***************************************************************************)
(* ValidateConfig on its own: documents with and without a title, with a   *)
(* nil, an empty, a one-entry and a two-entry sections map, the sections'  *)
(* priorities of any kind and of any magnitude from -MaxMag to MaxMag.     *)
(***************************************************************************)
ValidateSections ==
    {EmptyMap}
    \cup {"content" :> Section(1, <<"text">>, p) : p \in SignedPriorities}
    \cup {("content" :> Section(1, <<"text">>, p)) @@ ("notes" :> Section(2, <<"more">>, q)) :
            p \in SignedPriorities, q \in SignedPriorities}

ValidateDoc(titled, nilSections, sections) ==
    [ZeroConfig EXCEPT
        !.Metadata.Title = IF titled THEN <<"Title">> ELSE EmptyString,
        !.Sections = sections,
        !.NilMaps = IF nilSections THEN MapNames ELSE {}]

InitValidate ==
    /\ \E titled \in BOOLEAN, sections \in ValidateSections, nilSections \in BOOLEAN :
          /\ nilSections => sections = EmptyMap
          /\ configs = <<ValidateDoc(titled, nilSections, sections)>>
    /\ pc = "validate"
    /\ i = 0
    /\ result = NewResult
    /\ ret = "pending"
    /\ err = NoError
    /\ base = 0
    /\ replacements = NoReplacements
    /\ IdleComparator
    /\ IdleAux

\* err := config.ValidateConfig(cfg)
Validate ==
    /\ pc = "validate"
    /\ verdict' = ValidateConfig(configs[1])
    /\ pc' = "checked"
    /\ UNCHANGED <<configs, i, result, ret, err, base, replacements, prioA, prioB, cmp>>
    /\ UNCHANGED <<files, validate, fatal, argStrategy, argOld, argNew, applied,
                   earlier, written>>

NextValidate == Validate

SpecValidate == InitValidate /\ [][NextValidate]_vars

\* the three grounds of rejection
Rejectable(config) ==
    \/ config.Metadata.Title = EmptyString
    \/ DOMAIN config.Sections = {}
    \/ \E name \in DOMAIN config.Sections :
          /\ config.Sections[name].Priority.Type \in {PriorityRelative, PriorityExplicit}
          /\ config.Sections[name].Priority.Value < 0

(***************************************************************************)
(* C18: ValidateConfig(D) returns an error if and only if D's title is     *)
(* empty, or D has no section, or some section of D has a priority of a    *)
(* kind other than none with a negative magnitude; every other document is *)
(* accepted, a negative magnitude of kind none included; D is not          *)
(* modified.                                                               *)
(***************************************************************************)
C18_RejectsExactly ==
    [][pc' = "checked" =>
          /\ (verdict' # NoError) <=> Rejectable(configs[1])
          /\ configs' = configs]_vars

\* a titled document with a section of priority none(-1) next to one of
\* priority explicit(0) is accepted
C18_Witness ==
    /\ pc = "checked"
    /\ configs[1].Metadata.Title # EmptyString
    /\ DOMAIN configs[1].Sections = {"content", "notes"}
    /\ configs[1].Sections["content"].Priority = Priority(PriorityNone, 0 - 1)
    /\ configs[1].Sections["notes"].Priority = NewExplicitPriority(0)
    /\ verdict = NoError

(***************************************************************************)
(* The strategies on their own: ApplyStrategy and IsValid applied to a tag *)
(* and two contents.                                                       *)
(***************************************************************************)
\* the three tags, a tag in another case, an unknown tag and the empty tag
StrategyTags ==
    {StrategyReplace, StrategyAppend, StrategyPrepend, <<"Append">>, <<"merge">>, EmptyString}

StrategyContents == {EmptyString, <<"one">>, <<"two">>, <<"one", NL, "two">>}

InitStrategy ==
    /\ argStrategy \in StrategyTags
    /\ argOld \in StrategyContents
    /\ argNew \in StrategyContents
    /\ applied = [content |-> EmptyString, valid |-> FALSE]
    /\ pc = "apply"
    /\ configs = <<>>
    /\ i = 0
    /\ result = NewResult
    /\ ret = "pending"
    /\ err = NoError
    /\ base = 0
    /\ replacements = NoReplacements
    /\ IdleComparator
    /\ files = <<>>
    /\ validate = FALSE
    /\ fatal = NoError
    /\ verdict = NoError
    /\ earlier = NotInvoked
    /\ written = FALSE

\* ApplyStrategy(argStrategy, argOld, argNew) and argStrategy.IsValid()
Apply ==
    /\ pc = "apply"
    /\ applied' = [content |-> ApplyStrategy(argStrategy, argOld, argNew),
                   valid |-> IsValid(argStrategy)]
    /\ pc' = "applied"
    /\ UNCHANGED <<configs, i, result, ret, err, base, replacements, prioA, prioB, cmp>>
    /\ UNCHANGED <<files, validate, fatal, verdict, argStrategy, argOld, argNew,
                   earlier, written>>

NextStrategy == Apply

SpecStrategy == InitStrategy /\ [][NextStrategy]_vars

(***************************************************************************)
(* C19: ApplyStrategy(strategy, old, new) returns new for "replace" and    *)
(* for every unrecognized tag, which are exactly the tags for which        *)
(* IsValid is false; for "append" it returns new when old is empty and     *)
(* old, a newline and new otherwise; for "prepend" it returns new when old *)
(* is empty and new, a newline and old otherwise.                          *)
(***************************************************************************)
C19_StrategyTable ==
    pc = "applied" =>
        /\ applied.valid <=> argStrategy \in {<<"replace">>, <<"append">>, <<"prepend">>}
        /\ (argStrategy = <<"replace">> \/ ~applied.valid) => applied.content = argNew
        /\ argStrategy = <<"append">> =>
              applied.content = IF argOld = <<>> THEN argNew ELSE argOld \o <<"\n">> \o argNew
        /\ argStrategy = <<"prepend">> =>
              applied.content = IF argOld = <<>> THEN argNew ELSE argNew \o <<"\n">> \o argOld

\* an unknown tag on two non-empty contents: the new content alone
C19_Witness ==
    /\ pc = "applied"
    /\ argStrategy = <<"merge">>
    /\ argOld = <<"one">>
    /\ argNew = <<"two">>
    /\ ~applied.valid
    /\ applied.content = <<"two">>

\* the run merges one prose file without frontmatter, alone or with itself
SelfMerge ==
    /\ Returned /\ ret = "result"
    /\ Len(files) \in {1, 2}
    /\ \A k \in 1..Len(files) : files[k] = files[1]
    /\ WithoutFrontmatter(1)

(***************************************************************************)
(* C20 as claimed: for every prose document D normalized from an input     *)
(* without frontmatter, whatever its text, MergeAll([D, D]) and            *)
(* MergeAll([D]) return a section "content" whose content is that of D's.  *)
(***************************************************************************)
C20_SelfMergeIdempotent ==
    SelfMerge =>
        /\ "content" \in DOMAIN result.Sections
        /\ result.Sections["content"].Content = configs[1].Sections["content"].Content

(***************************************************************************)
(* C20 amended: the same, provided D's content does not hold both an       *)
(* opening and a closing placeholder marker; a D that holds such a pair is *)
(* its own base template and comes back with its marker block substituted. *)
(***************************************************************************)
C20_SelfMergeIdempotentWithoutMarkers ==
    (SelfMerge /\ ~HoldsMarkerPair(1)) =>
        /\ DOMAIN result.Sections = {"content"}
        /\ result.Sections["content"].Content = configs[1].Sections["content"].Content
        /\ result.Sections["content"].Content = Trimmed(files[1].data.text)

\* the file of headings and bullets merged with itself
C20_Witness ==
    /\ SelfMerge /\ Len(files) = 2
    /\ files[1].data.text = LangText
    /\ ~HoldsMarkerPair(1) /\ ~HoldsMarkerPair(2)
    /\ result.Sections["content"].Content = LangText

(***************************************************************************)
(* MergeAll invoked twice on the same merger and the same input sequence.  *)
(* The documents of this family differ in how many of their sections match *)
(* the test-commands heuristic.                                            *)
(***************************************************************************)
SectionShapes == {"template", "twoMatching", "oneMatching", "plain"}

\* a section whose content is a "Testing commands" heading and one bullet
CommandsSection(k, bullet) ==
    Section(k, <<"###", TestingCommands, NL, bullet, Tag(k)>>, ZeroPriority)

SectionsOf(shape, k) ==
    IF shape = "template" THEN "content" :> Section(k, TemplateBody(k), ZeroPriority)
    ELSE IF shape = "twoMatching"
    THEN ("first" :> CommandsSection(k, "- first")) @@ ("second" :> CommandsSection(k, "- second"))
    ELSE IF shape = "oneMatching" THEN "content" :> CommandsSection(k, "- only")
    ELSE "content" :> Section(k, PlainBody(k), ZeroPriority)

SectionsDoc(shape, k) ==
    Config(
        Metadata(<<"Title", Tag(k)>>, EmptyString, EmptyString, EmptyString, EmptyString,
                 ZeroPriority),
        SectionsOf(shape, k), EmptyMap, EmptyMap, <<"file", Tag(k)>>)

InitAgain ==
    /\ \E n \in 0..MaxDocs : \E f \in [1..n -> SectionShapes] :
          configs = [k \in 1..n |-> SectionsDoc(f[k], k)]
    /\ InitMerge

\* what an invocation returned
Outcome == [ret |-> ret, err |-> err, result |-> result]

\* m.MergeAll(configs) called once more after it returned: the merger has
\* no field but debug, so the call starts from the arguments alone
MergeAllAgain ==
    /\ pc = "done"
    /\ earlier = NotInvoked
    /\ earlier' = Outcome
    /\ pc' = "start"
    /\ i' = 0
    /\ result' = NewResult
    /\ ret' = "pending"
    /\ err' = NoError
    /\ base' = 0
    /\ replacements' = NoReplacements
    /\ UNCHANGED <<configs, prioA, prioB, cmp>>
    /\ UNCHANGED <<files, validate, fatal, verdict, argStrategy, argOld, argNew, applied,
                   written>>

NextAgain ==
    \/ MergeAllEmpty
    \/ MergeAllBegin
    \/ StandardStep
    \/ TemplateSeed
    \/ ApplyPlaceholderReplacements
    \/ TemplateTitleStep
    \/ MergeAllReturn
    \/ MergeAllAgain

SpecAgain == InitAgain /\ [][NextAgain]_vars

\* the second invocation has returned
ReturnedAgain == Returned /\ earlier # NotInvoked

\* the document at position j has several sections the test heuristic matches
SeveralMatching(j) ==
    Cardinality({n \in DOMAIN configs[j].Sections :
                    containsTestCommands(configs[j].Sections[n].Content)}) > 1

(***************************************************************************)
(* C21: two invocations of MergeAll on the same input sequence return      *)
(* equal outcomes (the same error, the same document), whatever the order  *)
(* in which the section maps are iterated, documents with several sections *)
(* matching one extraction heuristic included, and whatever the merger did *)
(* before.                                                                 *)
(***************************************************************************)
C21_Deterministic == ReturnedAgain => Outcome = earlier

\* the same for inputs in which no document has several matching sections
C21_DeterministicOneMatch ==
    (ReturnedAgain /\ \A j \in Positions : ~SeveralMatching(j)) => Outcome = earlier

(***************************************************************************)
(* Vocabulary of the properties of the command's run.                      *)
(***************************************************************************)
Loads(k) == LoadConfig(files[k])

\* neither loading nor, under -validate, validation fails on file k
Passes(k) ==
    /\ Loads(k).err = NoError
    /\ validate => ValidateConfig(Loads(k).config) = NoError

\* the error of file k
ErrorOf(k) ==
    IF Loads(k).err # NoError THEN Loads(k).err ELSE ValidateConfig(Loads(k).config)

\* MergeAll has been called
MergeAllInvoked ==
    pc \in {"start", "standard", "template", "replace", "titles", "done",
            "written", "writeFailed"}

\* the run has ended on an error of a file, or after validating all of them
Aborted == pc = "fatal"
ValidatedOnly == pc = "validated"

\* the state of a run: what has been loaded, how it ended
RunInOrder ==
    /\ \A k \in LoadedFiles : Passes(k) /\ configs[k] = Loads(k).config
    /\ Aborted =>
          /\ Len(configs) < Len(files)
          /\ ~Passes(Len(configs) + 1)
          /\ fatal = ErrorOf(Len(configs) + 1)
    /\ (Aborted \/ ValidatedOnly \/ pc = "load") =>
          ~MergeAllInvoked /\ ret = "pending" /\ result = NewResult /\ ~written
    /\ (MergeAllInvoked \/ ValidatedOnly) =>
          Len(configs) = Len(files) /\ \A k \in 1..Len(files) : Passes(k)
    /\ ValidatedOnly => validate
    /\ validate => ~MergeAllInvoked /\ ~written

\* a step of a run: one more file loaded, in order; nothing after the end
StepInOrder ==
    /\ (Aborted \/ ValidatedOnly) => UNCHANGED vars
    /\ configs' # configs =>
          /\ pc = "load"
          /\ configs' = Append(configs, Loads(Len(configs) + 1).config)
    /\ files' = files

(***************************************************************************)
(* C22: the command loads the files one after the other in merge order;    *)
(* the first file whose load fails (or, under -validate, whose validation  *)
(* fails) ends the run with that file's error, and then no later file is   *)
(* loaded, MergeAll is not invoked and the output file is not written;     *)
(* under -validate and without failure the run also ends without invoking  *)
(* MergeAll and without writing the output file.                           *)
(***************************************************************************)
C22_SequentialAbort == []RunInOrder /\ [][StepInOrder]_vars

\* the first of two files fails where the second would have passed
C22_Witness ==
    /\ Aborted /\ Len(files) = 2 /\ Len(configs) = 0
    /\ ~Passes(1) /\ Passes(2)
    /\ fatal = ErrorOf(1)
    /\ ret = "pending" /\ ~written

(***************************************************************************)
(* Vocabulary of the properties of the fold of the standard mode.          *)
(***************************************************************************)
\* the standard mode is running or has returned; the accumulator then holds
\* the merge of the documents at the positions before i
Folding == base = 0 /\ (pc = "standard" \/ (pc = "done" /\ ret = "result"))

Processed == 1..(i - 1)

\* the accumulator's title and priority are those of one processed document
CarriesTitleOf(j) ==
    /\ configs[j].Metadata.Title = result.Metadata.Title
    /\ configs[j].Metadata.Priority = result.Metadata.Priority

PriorityFollowsTitle ==
    Folding =>
        IF result.Metadata.Title = EmptyString
        THEN result.Metadata.Priority = ZeroPriority
        ELSE \E j \in Processed : CarriesTitleOf(j)

\* a step of the fold changes the accumulator's priority only by taking the
\* title and the priority of the document it processes
PriorityOnlyWithTitle ==
    (pc = "standard" /\ result'.Metadata.Priority # result.Metadata.Priority) =>
        /\ configs[i].Metadata.Title # EmptyString
        /\ result'.Metadata.Title = configs[i].Metadata.Title
        /\ result'.Metadata.Title # result.Metadata.Title
        /\ result'.Metadata.Priority = configs[i].Metadata.Priority

(***************************************************************************)
(* C23: in standard mode, after every prefix of the input sequence has     *)
(* been processed, the accumulator's Metadata Priority is that of the      *)
(* document whose title the accumulator holds, and the zero priority while *)
(* the title is empty; a step changes the accumulator's Metadata Priority  *)
(* only when it replaces the title.                                        *)
(***************************************************************************)
C23_PriorityFollowsTitle == []PriorityFollowsTitle /\ [][PriorityOnlyWithTitle]_vars

\* the first document's title and priority kept against a titled second
\* document of lower priority, after an untitled third one of higher priority
C23_Witness ==
    /\ Folding /\ Len(configs) = 3 /\ i = 4
    /\ configs[1].Metadata.Priority = NewRelativePriority(2)
    /\ configs[2].Metadata.Title # EmptyString
    /\ configs[2].Metadata.Priority = NewRelativePriority(1)
    /\ configs[3].Metadata.Title = EmptyString
    /\ configs[3].Metadata.Priority = NewExplicitPriority(1)
    /\ CarriesTitleOf(1)

\* the texts the extractors give on the sections of the documents other
\* than the base template
TestTextsOfOthers == UNION {testCommandTexts(configs[j]) : j \in Positions \ {base}}
DocTextsOfOthers == UNION {docStandardTexts(configs[j]) : j \in Positions \ {base}}

(***************************************************************************)
(* C24: in template mode the replacement text of a placeholder is          *)
(* extracted only from sections of documents other than the base template: *)
(* it is a text extracted from one of them, or none; the text of the base  *)
(* (its marker lines included) is never the replacement text, even when    *)
(* the base's content holds a heading such as "Testing commands".          *)
(***************************************************************************)
C24_OnlyFromOtherDocuments ==
    TemplateReturned =>
        /\ replacements.testCommands \in TestTextsOfOthers \cup {EmptyString}
        /\ replacements.documentationStandards \in DocTextsOfOthers \cup {EmptyString}

(***************************************************************************)
(* The fold family of inputs: documents without markers that differ in     *)
(* their key sets.  A document has or has not the shared key of each map,  *)
(* with a priority of any kind, and has or has not a key of its own; the   *)
(* fields of its entries carry its position, and its merge targets carry   *)
(* the strategy tag that its position selects.                             *)
(***************************************************************************)
FoldPriorities ==
    {ZeroPriority, Priority(PriorityNone, 1), NewRelativePriority(1),
     NewRelativePriority(MaxMag), NewExplicitPriority(1)}

FoldShapes ==
    {[has |-> TRUE, own |-> o, p |-> q] : o \in BOOLEAN, q \in FoldPriorities}
    \cup {[has |-> FALSE, own |-> o, p |-> ZeroPriority] : o \in BOOLEAN}

StrategyOf(k) ==
    IF k % 3 = 1 THEN StrategyReplace
    ELSE IF k % 3 = 2 THEN StrategyAppend
    ELSE StrategyPrepend

FoldDoc(shape, k) ==
    LET own == Tag(k)
        shared(key, v) == IF shape.has THEN (key :> v) ELSE EmptyMap
        mine(v) == IF shape.own THEN (own :> v) ELSE EmptyMap
    IN  Config(
            Metadata(<<"Title", own>>, EmptyString, EmptyString, EmptyString, EmptyString,
                     ZeroPriority),
            shared("section1", Section(k, PlainBody(k), shape.p))
                @@ mine(Section(k, <<"own", own>>, ZeroPriority)),
            shared("point1", MergePoint(<<"MERGE", own>>, <<"default", own>>, shape.p))
                @@ mine(MergePoint(<<"MERGE">>, <<"default">>, ZeroPriority)),
            shared("target1", MergeTarget(StrategyOf(k), <<"target", own>>, shape.p))
                @@ mine(MergeTarget(StrategyOf(k), <<"target">>, ZeroPriority)),
            <<"file", own>>)

InitFold ==
    /\ \E n \in 0..MaxDocs : \E f \in [1..n -> FoldShapes] :
          configs = [k \in 1..n |-> FoldDoc(f[k], k)]
    /\ InitMerge

\* MergeAll on documents without markers: findBaseTemplate finds no base
NextFold ==
    \/ MergeAllEmpty
    \/ MergeAllBegin
    \/ StandardStep
    \/ MergeAllReturn

SpecFold == InitFold /\ [][NextFold]_vars

\* the standard mode has returned its document
FoldReturned == Folding /\ Returned

(***************************************************************************)
(* C25: in standard mode the key set of each of the three maps of the      *)
(* result is the union of the key sets of that map over the input          *)
(* documents, and a key that only one input document has carries that      *)
(* document's entry unchanged.                                             *)
(***************************************************************************)
C25_KeysAreUnion ==
    FoldReturned =>
        \A map \in MapNames :
            /\ DOMAIN result[map] = AllKeys(map)
            /\ \A k \in AllKeys(map) : \A j \in Positions :
                  Holders(map, k) = {j} => result[map][k] = configs[j][map][k]

\* three documents: the first and the last share a key, the second has only
\* a key of its own, the third has none of its own
C25_Witness ==
    /\ FoldReturned /\ Len(configs) = 3
    /\ Holders("Sections", "section1") = {1, 3}
    /\ DOMAIN configs[2].MergePoints = {Tag(2)}
    /\ DOMAIN result.Sections = {"section1", Tag(1), Tag(2)}
    /\ result.MergeTargets[Tag(2)] = configs[2].MergeTargets[Tag(2)]

\* the content that a combining strategy makes of the contents that two
\* different holders of a merge-target key have under it
Combined(k) ==
    UNION {{ApplyStrategy(tag, configs[a].MergeTargets[k].Content,
                          configs[b].MergeTargets[k].Content) :
                tag \in {StrategyAppend, StrategyPrepend},
                b \in Holders("MergeTargets", k) \ {a}} :
           a \in Holders("MergeTargets", k)}

(***************************************************************************)
(* C26: in standard mode every entry of the result's sections, merge       *)
(* points and merge targets is equal, in all of its fields, to the entry   *)
(* under the same key of one single input document: fields of entries of   *)
(* different documents are not mixed, and the content of a merge target is *)
(* never the combination of two contents that its strategy tag (append,    *)
(* prepend) would make.                                                    *)
(***************************************************************************)
C26_EntriesFromOneDocument ==
    FoldReturned =>
        /\ \A map \in MapNames : \A k \in DOMAIN result[map] :
              \E j \in Holders(map, k) : result[map][k] = configs[j][map][k]
        /\ \A k \in DOMAIN result.MergeTargets :
              result.MergeTargets[k].Content \notin Combined(k)

\* a relative target tagged "replace", then an explicit one tagged "append":
\* the result has the second target, its content alone
C26_Witness ==
    /\ FoldReturned /\ Len(configs) = 2
    /\ Holders("MergeTargets", "target1") = {1, 2}
    /\ configs[1].MergeTargets["target1"].Priority = NewRelativePriority(1)
    /\ configs[2].MergeTargets["target1"].Priority = NewExplicitPriority(1)
    /\ configs[2].MergeTargets["target1"].Strategy = StrategyAppend
    /\ result.MergeTargets["target1"] = configs[2].MergeTargets["target1"]
    /\ result.MergeTargets["target1"].Content = <<"target", Tag(2)>>

NotBelowProcessed ==
    Folding =>
        \A map \in MapNames : \A j \in Processed : \A k \in DOMAIN configs[j][map] :
            /\ k \in DOMAIN result[map]
            /\ ~TakesPrecedenceOver(configs[j][map][k].Priority, result[map][k].Priority)

\* a step of the fold removes no key and leaves under each key a priority
\* that the one held before does not strictly outrank
KeysAndPrioritiesKept ==
    pc = "standard" =>
        \A map \in MapNames : \A k \in DOMAIN result[map] :
            /\ k \in DOMAIN result'[map]
            /\ ~TakesPrecedenceOver(result[map][k].Priority, result'[map][k].Priority)

LastNames == {"template", "bullets", "bare", "standards", "selfBare", "plain"}

LastContent(name, k) ==
    CASE name = "template" ->
            <<"body", Tag(k), NL, OpenTest, NL, "placeholder", NL, CloseTest, NL,
              OpenDoc, NL, "placeholder", NL, CloseDoc, NL, "end">>
      [] name = "bullets" -> <<"###", TestingCommands, NL, "- unit", Tag(k)>>
      [] name = "bare" -> <<"run", GoTestAll, Tag(k)>>
      [] name = "standards" -> <<"###", DocumentationStandards, NL, "doc line", Tag(k)>>
      [] name = "selfBare" ->
            <<"run", GoTestAll, Tag(k), NL, OpenTest, "placeholder", CloseTest>>
      [] name = "plain" -> PlainBody(k)

LastDoc(name, k) ==
    Config(
        Metadata(<<"Title", Tag(k)>>, EmptyString, EmptyString, EmptyString, EmptyString,
                 ZeroPriority),
        "content" :> Section(1, LastContent(name, k), ZeroPriority),
        EmptyMap, EmptyMap, <<"file", Tag(k)>>)

InitLast ==
    /\ \E n \in 0..MaxDocs : \E f \in [1..n -> LastNames] :
          configs = [k \in 1..n |-> LastDoc(f[k], k)]
    /\ InitMerge

SpecLast == InitLast /\ [][Next]_vars

\* the content of the one section of the document at position j
ContentAt(j) == configs[j].Sections["content"].Content

\* the documents that a detection heuristic matches
MatchingTest == {j \in Positions : containsTestCommands(ContentAt(j))}
MatchingDoc == {j \in Positions : containsDocumentationStandards(ContentAt(j))}

Last(S) == CHOOSE j \in S : \A m \in S : m <= j

\* the text extracted from the last matching document, "" when none matches
TestTextOfLast ==
    IF MatchingTest = {} THEN EmptyString ELSE extractTestCommands(ContentAt(Last(MatchingTest)))
DocTextOfLast ==
    IF MatchingDoc = {} THEN EmptyString
    ELSE extractDocumentationStandards(ContentAt(Last(MatchingDoc)))

(***************************************************************************)
(* C29: in template mode, when several documents of one section each match *)
(* the detection heuristic of a placeholder name, the replacement text is  *)
(* the one extracted from the last matching document of the input          *)
(* sequence; when that document matches and nothing is extracted from it   *)
(* (its content holds "test ./..." and no line with "Testing commands"),   *)
(* the marker block is replaced by nothing, whatever an earlier document   *)
(* supplied.                                                               *)
(***************************************************************************)
C29_LastMatchingWins ==
    TemplateReturned =>
        /\ replacements.testCommands = TestTextOfLast
        /\ replacements.documentationStandards = DocTextOfLast
        /\ TestTextOfLast # EmptyString =>
              \/ ~Contains(ContentAt(base), OpenTest)
              \/ ContainsSeq(result.Sections["content"].Content, TestTextOfLast)
        /\ (MatchingTest # {} /\ TestTextOfLast = EmptyString) =>
              /\ \A j \in MatchingTest :
                    ~ContainsSeq(result.Sections["content"].Content, <<"- unit", Tag(j)>>)
              /\ ~Contains(result.Sections["content"].Content, OpenTest)
              /\ ~Contains(result.Sections["content"].Content, CloseTest)

\* a template, a document with a bullet under the heading, and last a
\* document that only names the command: the block is replaced by nothing
C29_Witness ==
    /\ TemplateReturned /\ Len(configs) = 3 /\ base = 1
    /\ MatchingTest = {2, 3}
    /\ extractTestCommands(ContentAt(2)) = <<"- unit", Tag(2)>>
    /\ extractTestCommands(ContentAt(3)) = EmptyString
    /\ replacements.testCommands = EmptyString
    /\ result.Sections["content"].Content = <<"body", Tag(1), NL, NL, NL, "end">>

=============================================================================
